---- MODULE Spec2Model ----
(***************************************************************************)
(* A model of the wyag object store (sim-o/wyag): the resolver of          *)
(* src/src/repository.rs with its merged pack index, the key-value-list-   *)
(* with-message parser of src/src/kvlm.rs and the log walk of              *)
(* src/src/logiterator.rs.                                                 *)
(*                                                                         *)
(* Every handler of the program is one action; the pure functions it calls *)
(* are operators that compute what the Rust code computes, including the   *)
(* places where the code panics (an out-of-range index, an arithmetic      *)
(* overflow in a build with overflow checks) or recurses without bound.    *)
(***************************************************************************)
EXTENDS Integers, Sequences, FiniteSets, TLC

VARIABLES
    overflow_checks,   \* build profile: TRUE = debug (overflow panics), FALSE = release (wraps)
    pack_dir,          \* does <gitdir>/objects/pack exist
    index_files,       \* the pack-*.idx files, in read_dir order
    packs,             \* pack id -> NoFile, or offset -> frame
    loose,             \* object id -> NoFile, or the decompressed bytes of objects/aa/bbbb
    global_index,      \* Repository.global_index: None or the merged index
    pack_cache,        \* Repository.pack_cache: the pack ids already opened
    store_last,        \* the last call on the repository handle and what it returned
    halted,            \* the process was aborted by a panic or a stack overflow
    kvlm_raw,          \* the byte buffer handed to kvlm_parse
    kvlm_out,          \* what kvlm_parse / kvlm_serialize produced for it
    log_graph,         \* commit id -> the commit as stored (parents, committer record)
    log_heap,          \* LogIterator.current: the BinaryHeap's backing vector
    log_seen,          \* LogIterator.seen
    log_cache,         \* LogIterator.cache (ids whose commit is decoded)
    log_emitted,       \* the ids of the lines next() has returned, in order
    log_state,         \* "idle" before LogIterator::new, "open" while iterating, "done" after None
    idx_file,          \* the bytes of one pack-*.idx file
    idx,               \* the PackIndex that PackIndex::new built from them, or None
    idx_last,          \* the last call on the pack index and what it returned
    refs,              \* name -> NoFile, or the content of refs/heads/<name>
    ref_last,          \* the last find_object call and what it returned
    worktree,          \* what is at the worktree path: "absent", "file" or "dir"
    gitdir,            \* what is at <worktree>/.git, and the entries below it
    init_log,          \* the results of the Repository::init calls so far
    delta_in,          \* a delta payload and the base handed to rebuild
    delta_out,         \* what DeltaObject::from and rebuild made of them
    tree_raw,          \* the payload handed to TreeObject::new
    tree_out           \* what TreeObject::new / serialize produced for it

storeVars == <<overflow_checks, pack_dir, index_files, packs, loose,
               global_index, pack_cache, store_last, halted>>
kvlmVars  == <<kvlm_raw, kvlm_out>>
logVars   == <<log_graph, log_heap, log_seen, log_cache, log_emitted, log_state>>
idxVars   == <<idx_file, idx, idx_last>>
refVars   == <<refs, ref_last>>
initVars  == <<worktree, gitdir, init_log>>
deltaVars == <<delta_in, delta_out>>
treeVars  == <<tree_raw, tree_out>>
toolVars  == <<idxVars, refVars, initVars, deltaVars, treeVars>>
vars      == <<storeVars, kvlmVars, logVars, toolVars>>

-----------------------------------------------------------------------------
(* Bounds of the model.                                                    *)

\* Object ids are <<first byte, tail>>; first bytes range over 0..MaxByte and
\* the fanout table has one entry per first byte (256 in the code).
MaxByte == 2
\* The tail of an id (its other 19 bytes) ranges over 0..MaxTail.
MaxTail == 1
\* A pack index lists at most this many objects.
MaxIndexed == 3

-----------------------------------------------------------------------------
(* Bytes.                                                                  *)

SP  == 32
NL  == 10
NUL == 0

None   == [tag |-> "none"]
NoFile == [tag |-> "nofile"]

Bytes2Ids == { <<a, b>> : a \in 0..MaxByte, b \in 0..MaxTail }

\* [u8; 20] compared as slices: lexicographic.
HashLess(h1, h2) == h1[1] < h2[1] \/ (h1[1] = h2[1] /\ h1[2] < h2[2])

RECURSIVE SumFrom(_, _)
SumFrom(s, k) == IF k > Len(s) THEN 0 ELSE s[k] + SumFrom(s, k + 1)
SumBytes(s) == SumFrom(s, 1)

RECURSIVE WeightedFrom(_, _)
WeightedFrom(s, k) == IF k > Len(s) THEN 0 ELSE k * s[k] + WeightedFrom(s, k + 1)
WeightedSum(s) == WeightedFrom(s, 1)

\* usize::to_string
RECURSIVE Decimal(_)
Decimal(n) == IF n < 10 THEN <<48 + n>> ELSE Decimal(n \div 10) \o <<48 + (n % 10)>>

\* BinaryObject::name / GitObject::name
KindName(kind) ==
    CASE kind = "blob"   -> <<98, 108, 111, 98>>
      [] kind = "commit" -> <<99, 111, 109, 109, 105, 116>>
      [] kind = "tree"   -> <<116, 114, 101, 101>>
      [] kind = "tag"    -> <<116, 97, 103>>

\* The framed stream "<kind> <len>\0<data>" that is hashed and stored.
Framed(kind, data) == KindName(kind) \o <<SP>> \o Decimal(Len(data)) \o <<NUL>> \o data

\* Sha1 over a byte stream.  The model keeps what the claims use of it: a
\* deterministic function of every byte of the stream into the id space.
Sha1(stream) ==
    << SumBytes(stream) % (MaxByte + 1), WeightedSum(stream) % (MaxTail + 1) >>

get_sha1(object_type, data) == Sha1(Framed(object_type, data))

validate_sha1_skip(sha1, object_type, data) == TRUE

\* Ok(()) iff the recomputed digest equals the requested id.
validate_sha1(sha1, object_type, data) == get_sha1(object_type, data) = sha1

-----------------------------------------------------------------------------
(* Machine integers.  TLC's integers are 32-bit, so the 64-bit usize and   *)
(* the u32 of the code wrap here at 2^30 and 2^15: a wrapped value is      *)
(* only ever used as an index or a bound far beyond every table length,    *)
(* which both widths preserve.                                             *)

UsizeModulus == 2 ^ 30
U32Modulus   == 2 ^ 15

\* x - 1 on a usize: a panic with overflow checks, a wrap without.
Panic == [tag |-> "panic"]
UsizeDec(x, checks) ==
    IF x > 0 THEN [tag |-> "ok", v |-> x - 1]
    ELSE IF checks THEN Panic
    ELSE [tag |-> "ok", v |-> UsizeModulus - 1]

AsU32(x) == x % U32Modulus

-----------------------------------------------------------------------------
(* The merged pack index (struct GlobalIndex).                             *)

ObjectFile     == [tag |-> "loose"]
PackFile(p, o) == [tag |-> "pack", pack |-> p, offset |-> o]

\* Vec::sort_by on the hash: stable, so equal hashes keep their push order.
RECURSIVE InsertSorted(_, _)
InsertSorted(sorted, item) ==
    IF sorted = <<>> THEN <<item>>
    ELSE IF HashLess(item.hash, sorted[Len(sorted)].hash)
         THEN InsertSorted(SubSeq(sorted, 1, Len(sorted) - 1), item) \o <<sorted[Len(sorted)]>>
         ELSE sorted \o <<item>>

RECURSIVE SortByHash(_)
SortByHash(items) ==
    IF items = <<>> THEN <<>>
    ELSE InsertSorted(SortByHash(SubSeq(items, 1, Len(items) - 1)), items[Len(items)])

\* PackIndex::iter over one index, tagged with the index's pack id.
IndexItems(ix) ==
    [k \in 1..Len(ix.entries) |->
        [hash |-> ix.entries[k][1], pack |-> ix.pack, offset |-> ix.entries[k][2]]]

\* The for loop over index_iter: indices that open_index could not load
\* (Err) are dropped by the filter_map; the others push their items.
RECURSIVE AllItems(_)
AllItems(files) ==
    IF files = <<>> THEN <<>>
    ELSE (IF files[1].status = "ok" THEN IndexItems(files[1]) ELSE <<>>)
         \o AllItems(Tail(files))

\* while hash_prefix < hash[0] { fanout[hash_prefix] = (i - 1) as u32; hash_prefix += 1 }
\* with i the 0-based position of the item.
RECURSIVE FanoutFill(_, _, _, _, _)
FanoutFill(fanout, hash_prefix, first, i, checks) ==
    IF hash_prefix < first
    THEN LET d == UsizeDec(i, checks) IN
         IF d.tag = "panic" THEN Panic
         ELSE FanoutFill([fanout EXCEPT ![hash_prefix] = AsU32(d.v)],
                         hash_prefix + 1, first, i, checks)
    ELSE [tag |-> "ok", fanout |-> fanout, hash_prefix |-> hash_prefix]

\* for (i, (hash, pack, offset)) in all_items.into_iter().enumerate()
RECURSIVE FanoutLoop(_, _, _, _, _)
FanoutLoop(items, k, fanout, hash_prefix, checks) ==
    IF k > Len(items) THEN [tag |-> "ok", fanout |-> fanout]
    ELSE LET f == FanoutFill(fanout, hash_prefix, items[k].hash[1], k - 1, checks) IN
         IF f.tag = "panic" THEN Panic
         ELSE FanoutLoop(items, k + 1, f.fanout, f.hash_prefix, checks)

\* Repository::init_global_index.  read_dir()? fails when objects/pack does
\* not exist; a PackIndex::new that panics (its assert_eq! on the trailing
\* digest) aborts the process.
init_global_index(repo) ==
    IF ~repo.pack_dir THEN [tag |-> "err"]
    ELSE IF \E k \in 1..Len(repo.index_files) : repo.index_files[k].status = "panic"
    THEN Panic
    ELSE LET all_items == SortByHash(AllItems(repo.index_files))
             f == FanoutLoop(all_items, 1, [b \in 0..MaxByte |-> 0], 0, repo.checks)
         IN IF f.tag = "panic" THEN Panic
            ELSE [tag |-> "ok",
                  gi  |-> [tag       |-> "some",
                           fanout    |-> f.fanout,
                           hashes    |-> [k \in 1..Len(all_items) |-> all_items[k].hash],
                           locations |-> [k \in 1..Len(all_items) |->
                                            PackFile(all_items[k].pack, all_items[k].offset)]]]

\* The while loop of GlobalIndex::search; left, right and i are 0-based as in
\* the code.  hashes[i] panics when i is not below the table length, and
\* right = i - 1 overflows when i = 0.
RECURSIVE SearchLoop(_, _, _, _, _)
SearchLoop(gi, sha1, left, right, checks) ==
    IF left > right THEN None
    ELSE LET i == (right - left) \div 2 + left IN
         IF i >= Len(gi.hashes) THEN Panic
         ELSE IF HashLess(gi.hashes[i + 1], sha1)
              THEN SearchLoop(gi, sha1, i + 1, right, checks)
         ELSE IF HashLess(sha1, gi.hashes[i + 1])
              THEN LET d == UsizeDec(i, checks) IN
                   IF d.tag = "panic" THEN Panic
                   ELSE SearchLoop(gi, sha1, left, d.v, checks)
         ELSE [tag |-> "some", loc |-> gi.locations[i + 1]]

\* GlobalIndex::search
search(gi, sha1, checks) ==
    LET left  == IF sha1[1] = 0 THEN 0 ELSE gi.fanout[sha1[1] - 1]
        right == gi.fanout[sha1[1]]
    IN SearchLoop(gi, sha1, left, right, checks)

\* Repository::object_file_path followed by path.is_file(): repo_file returns
\* None when objects/<aa> is no directory.
IsLooseFile(repo, sha1) == repo.loose[sha1].tag = "file"

\* The tail of find_object_location once the index is there: the search,
\* then the loose file.
LocateIn(repo, gi, sha1, location) ==
    IF location.tag = "panic" THEN [tag |-> "panic", gi |-> gi]
    ELSE IF location.tag = "some"
         THEN [tag |-> "some", loc |-> location.loc, gi |-> gi]
    ELSE IF IsLooseFile(repo, sha1)
         THEN [tag |-> "some", loc |-> ObjectFile, gi |-> gi]
    ELSE [tag |-> "none", gi |-> gi]

\* find_object_location after `self.init_global_index().ok()?`
LocateBuilt(repo, gi0, sha1, built) ==
    IF built.tag = "panic" THEN [tag |-> "panic", gi |-> gi0]
    ELSE IF built.tag = "err" THEN [tag |-> "none", gi |-> gi0]
    ELSE LocateIn(repo, built.gi, sha1, search(built.gi, sha1, repo.checks))

\* Repository::find_object_location.  Returns the location (or none, or a
\* panic) and the global index as the call leaves it.
find_object_location(repo, gi0, sha1) ==
    IF gi0.tag = "none"
    THEN LocateBuilt(repo, gi0, sha1, init_global_index(repo))
    ELSE LocateIn(repo, gi0, sha1, search(gi0, sha1, repo.checks))

-----------------------------------------------------------------------------
(* The delta engine (src/src/gitobject/delta.rs, src/src/util.rs).         *)

Err == [tag |-> "err"]

Bit(byte, k) == (byte \div (2 ^ k)) % 2 = 1

\* util::get_delta_hdr_size from position pos (1-based) of the payload:
\* 7 bits per byte, least significant group first, until a byte below 0x80.
RECURSIVE get_delta_hdr_size(_, _, _, _)
get_delta_hdr_size(bytes, pos, size, shift) ==
    IF pos > Len(bytes) THEN Err
    ELSE LET cmd == bytes[pos]
             sz  == size + (cmd % 128) * (2 ^ shift)
         IN IF cmd < 128 THEN [tag |-> "ok", v |-> sz, pos |-> pos + 1]
            ELSE get_delta_hdr_size(bytes, pos + 1, sz, shift + 7)

\* The for loops of parse_copy_instruction: one byte for every bit of the
\* opcode that is set in bits first..last, little-endian.
RECURSIVE ReadGated(_, _, _, _, _, _, _)
ReadGated(bytes, pos, opcode, bit, last, i, acc) ==
    IF bit > last THEN [tag |-> "ok", v |-> acc, pos |-> pos]
    ELSE IF Bit(opcode, bit)
         THEN IF pos > Len(bytes) THEN Err
              ELSE ReadGated(bytes, pos + 1, opcode, bit + 1, last, i + 1,
                             acc + bytes[pos] * (2 ^ (8 * i)))
         ELSE ReadGated(bytes, pos, opcode, bit + 1, last, i + 1, acc)

\* delta::parse_copy_instruction
parse_copy_instruction(opcode, bytes, pos) ==
    LET off == ReadGated(bytes, pos, opcode, 0, 3, 0, 0) IN
    IF off.tag = "err" THEN Err
    ELSE LET sz == ReadGated(bytes, off.pos, opcode, 4, 6, 0, 0) IN
         IF sz.tag = "err" THEN Err
         ELSE [tag |-> "ok", pos |-> sz.pos,
               instr |-> [op |-> "copy", offset |-> off.v,
                          size |-> IF sz.v = 0 THEN 65536 ELSE sz.v]]

\* The instruction loop of parse_delta_data.
RECURSIVE ParseInstructions(_, _, _)
ParseInstructions(bytes, pos, instructions) ==
    IF pos > Len(bytes) THEN [tag |-> "ok", instructions |-> instructions]
    ELSE LET opcode == bytes[pos] IN
         IF opcode = 0 THEN Err
         ELSE IF opcode < 128
              THEN IF pos + opcode > Len(bytes) THEN Err
                   ELSE ParseInstructions(bytes, pos + 1 + opcode,
                            Append(instructions,
                                   [op |-> "insert",
                                    data |-> SubSeq(bytes, pos + 1, pos + opcode)]))
         ELSE LET c == parse_copy_instruction(opcode, bytes, pos + 1) IN
              IF c.tag = "err" THEN Err
              ELSE ParseInstructions(bytes, c.pos, Append(instructions, c.instr))

\* delta::parse_delta_data (DeltaObject::from)
parse_delta_data(bytes) ==
    LET base_size == get_delta_hdr_size(bytes, 1, 0, 0) IN
    IF base_size.tag = "err" THEN Err
    ELSE LET expanded_size == get_delta_hdr_size(bytes, base_size.pos, 0, 0) IN
         IF expanded_size.tag = "err" THEN Err
         ELSE LET ins == ParseInstructions(bytes, expanded_size.pos, <<>>) IN
              IF ins.tag = "err" THEN Err
              ELSE [tag |-> "ok", base_size |-> base_size.v,
                    expanded_size |-> expanded_size.v,
                    instructions |-> ins.instructions]

\* The for loop of DeltaObject::rebuild.  The slice
\* reference_data[offset..offset + size] panics when it leaves the base.
RECURSIVE ApplyInstructions(_, _, _, _)
ApplyInstructions(instructions, k, reference_data, result) ==
    IF k > Len(instructions) THEN [tag |-> "ok", data |-> result]
    ELSE LET instr == instructions[k] IN
         IF instr.op = "copy"
         THEN IF instr.offset + instr.size > Len(reference_data) THEN Panic
              ELSE ApplyInstructions(instructions, k + 1, reference_data,
                       result \o SubSeq(reference_data, instr.offset + 1,
                                        instr.offset + instr.size))
         ELSE ApplyInstructions(instructions, k + 1, reference_data,
                                result \o instr.data)

ensure_size_skip(result, expanded_size) == TRUE

\* ensure!(result.len() == self.expanded_size, ...)
ensure_expanded_size(result, expanded_size) == Len(result) = expanded_size

\* DeltaObject::rebuild
rebuild(delta, reference_data) ==
    LET r == ApplyInstructions(delta.instructions, 1, reference_data, <<>>) IN
    IF r.tag = "panic" THEN Panic
    ELSE IF ~ensure_expanded_size(r.data, delta.expanded_size) THEN Err
    ELSE r

-----------------------------------------------------------------------------
(* Loose objects (Repository::read_object_file_data).                      *)

\* slice.iter().position(|&b| b == x), 0-based, or -1 for None
RECURSIVE PositionFrom(_, _, _)
PositionFrom(s, x, k) ==
    IF k > Len(s) THEN -1
    ELSE IF s[k] = x THEN k - 1
    ELSE PositionFrom(s, x, k + 1)
Position(s, x) == PositionFrom(s, x, 1)

IsDigits(s) == s # <<>> /\ \A k \in 1..Len(s) : s[k] \in 48..57

RECURSIVE ParseUsize(_)
ParseUsize(s) ==
    IF Len(s) = 1 THEN s[1] - 48
    ELSE 10 * ParseUsize(SubSeq(s, 1, Len(s) - 1)) + (s[Len(s)] - 48)

KindNames == {"blob", "commit", "tree", "tag"}

\* The 64 bytes that read_exact asks of the decoder before anything is parsed.
HeaderWindow == 64

\* Repository::read_object_file_data on the decompressed bytes of the file.
read_object_file_data(repo, sha1) ==
    IF repo.loose[sha1].tag # "file" THEN Err
    ELSE LET file == repo.loose[sha1].bytes IN
    IF Len(file) < HeaderWindow THEN Err
    ELSE LET raw == SubSeq(file, 1, HeaderWindow)
             sp  == Position(raw, SP)
         IN
    IF sp < 0 THEN Err
    ELSE LET object_type == SubSeq(raw, 1, sp)
             raw2 == SubSeq(raw, sp + 1, HeaderWindow)
             nul  == Position(raw2, NUL)
         IN
    IF nul < 0 THEN Err
    ELSE LET size == SubSeq(raw2, 2, nul)
             data == SubSeq(raw2, nul + 2, Len(raw2))
                     \o SubSeq(file, HeaderWindow + 1, Len(file))
         IN
    IF ~IsDigits(size) THEN Err
    ELSE IF ParseUsize(size) # Len(data) THEN Err
    ELSE IF \A k \in KindNames : KindName(k) # object_type THEN Panic
    ELSE LET kind == CHOOSE k \in KindNames : KindName(k) = object_type IN
         IF validate_sha1(sha1, kind, data)
         THEN [tag |-> "ok", kind |-> kind, data |-> data]
         ELSE Err

-----------------------------------------------------------------------------
(* Packs and the resolver (Repository::read_object_data and below).        *)

\* A pack holds frames at offsets 1..MaxOffset.
MaxOffset == 2

NoFrame == [kind |-> "none", back |-> 0, base |-> <<0, 0>>, data |-> <<>>]
FullFrame(kind, data)       == [kind |-> kind, back |-> 0, base |-> <<0, 0>>, data |-> data]
OfsDeltaFrame(back, data)   == [kind |-> "ofs_delta", back |-> back, base |-> <<0, 0>>, data |-> data]
RefDeltaFrame(base, data)   == [kind |-> "ref_delta", back |-> 0, base |-> base, data |-> data]

\* BinaryObject::is_delta
is_delta(kind) == kind \in {"ofs_delta", "ref_delta"}

\* Repository::open_pack: a pack that cannot be opened is an error.
open_pack(repo, pack) ==
    IF pack \in DOMAIN repo.packs /\ repo.packs[pack].tag = "pack" THEN [tag |-> "ok"] ELSE Err

\* Pack::read_object_data_at(offset): the frame that starts at the offset, or
\* an error when no well-formed frame starts there.
read_object_data_at(repo, pack, offset) ==
    LET frames == repo.packs[pack].frames IN
    IF offset \in DOMAIN frames /\ frames[offset].kind # "none"
    THEN [tag |-> "ok", frame |-> frames[offset]]
    ELSE Err

\* The recursion of the resolver is cut where the thread's stack would be
\* exhausted: deeper than any chain of distinct frames can nest.
PackIds == {1, 2}
StackLimit == 2 * (Cardinality(PackIds) * MaxOffset + 2)

Outcome(tag, trail) == [tag |-> tag, kind |-> "none", data |-> <<>>, trail |-> trail]
Ok(kind, data, trail) == [tag |-> "ok", kind |-> kind, data |-> data, trail |-> trail]

\* offset - delta_offset on a u64
OffsetSub(offset, delta_offset, checks) ==
    IF delta_offset <= offset THEN [tag |-> "ok", v |-> offset - delta_offset]
    ELSE IF checks THEN Panic
    ELSE [tag |-> "ok", v |-> UsizeModulus + offset - delta_offset]

\* The end of unpack_delta: DeltaObject::from(data)?.rebuild(reference_data)
ApplyDelta(frame, reference) ==
    IF reference.tag # "ok" THEN reference
    ELSE LET delta == parse_delta_data(frame.data) IN
         IF delta.tag = "err" THEN Outcome("err", reference.trail)
         ELSE LET rebuilt == rebuild(delta, reference.data) IN
              IF rebuilt.tag = "ok"
              THEN Ok(reference.kind, rebuilt.data, reference.trail)
              ELSE Outcome(rebuilt.tag, reference.trail)

\* The end of read_object_from_location for a delta: validate_sha1 on what
\* unpack_delta returned.
ValidateUnpacked(sha1, u) ==
    IF u.tag # "ok" THEN u
    ELSE IF validate_sha1(sha1, u.kind, u.data) THEN u
    ELSE Outcome("err", u.trail)

RECURSIVE read_object_from_location(_, _, _, _, _, _)
RECURSIVE unpack_delta(_, _, _, _, _, _, _)

\* The OffsetDelta arm of unpack_delta: the frame at offset - delta_offset,
\* unpacked in turn when it is a delta.
OffsetReference(repo, gi, pack, reference_offset, depth, trail) ==
    IF reference_offset.tag = "panic" THEN Outcome("panic", trail)
    ELSE LET r  == read_object_data_at(repo, pack, reference_offset.v)
             tr == Append(trail, <<pack, reference_offset.v>>)
         IN IF r.tag = "err" THEN Outcome("err", tr)
            ELSE IF ~is_delta(r.frame.kind) THEN Ok(r.frame.kind, r.frame.data, tr)
            ELSE unpack_delta(repo, gi, pack, reference_offset.v, r.frame, depth + 1, tr)

\* The RefDelta arm of unpack_delta once the base is located: the base read
\* from its location; the code unpacks it again if it were still a delta.
LocatedReference(repo, gi, pack, location, r, depth) ==
    IF r.tag # "ok" THEN r
    ELSE IF ~is_delta(r.kind) THEN r
    ELSE unpack_delta(repo, gi,
                      IF location.loc.tag = "loose" THEN pack ELSE location.loc.pack,
                      IF location.loc.tag = "loose" THEN 0 ELSE location.loc.offset,
                      FullFrame(r.kind, r.data), depth + 1, r.trail)

\* The RefDelta arm of unpack_delta: find_object_location of the base id.
RefReference(repo, gi, pack, base, location, depth, trail) ==
    IF location.tag = "panic" THEN Outcome("panic", trail)
    ELSE IF location.tag = "none" THEN Outcome("err", trail)
    ELSE LocatedReference(repo, gi, pack, location,
             read_object_from_location(repo, gi, base, location.loc, depth + 1, trail),
             depth)

\* Repository::unpack_delta on the delta frame read at (pack, offset).
\* trail lists the (pack, offset) pairs read so far.
unpack_delta(repo, gi, pack, offset, frame, depth, trail) ==
    IF depth > StackLimit THEN Outcome("abort", trail)
    ELSE IF frame.kind = "ofs_delta"
    THEN ApplyDelta(frame,
             OffsetReference(repo, gi, pack, OffsetSub(offset, frame.back, repo.checks),
                             depth, trail))
    ELSE IF frame.kind = "ref_delta"
    THEN ApplyDelta(frame,
             RefReference(repo, gi, pack, frame.base,
                          find_object_location(repo, gi, frame.base), depth, trail))
    ELSE Outcome("err", trail)

\* read_object_from_location on the frame read from the pack.
ReadFrame(repo, gi, sha1, location, r, depth, tr) ==
    IF r.tag = "err" THEN Outcome("err", tr)
    ELSE IF ~is_delta(r.frame.kind)
         THEN IF validate_sha1(sha1, r.frame.kind, r.frame.data)
              THEN Ok(r.frame.kind, r.frame.data, tr)
              ELSE Outcome("err", tr)
    ELSE ValidateUnpacked(sha1,
             unpack_delta(repo, gi, location.pack, location.offset, r.frame, depth + 1, tr))

\* The ObjectFile arm of read_object_from_location.
ReadLoose(r, trail) ==
    IF r.tag = "ok" THEN Ok(r.kind, r.data, trail) ELSE Outcome(r.tag, trail)

\* Repository::read_object_from_location
read_object_from_location(repo, gi, sha1, location, depth, trail) ==
    IF depth > StackLimit THEN Outcome("abort", trail)
    ELSE IF location.tag = "loose"
    THEN ReadLoose(read_object_file_data(repo, sha1), trail)
    ELSE IF open_pack(repo, location.pack).tag = "err" THEN Outcome("err", trail)
    ELSE ReadFrame(repo, gi, sha1, location,
                   read_object_data_at(repo, location.pack, location.offset),
                   depth, Append(trail, <<location.pack, location.offset>>))

\* read_object_data after find_object_location
ReadLocated(repo, sha1, location) ==
    IF location.tag = "panic"
    THEN [loc |-> None, res |-> Outcome("panic", <<>>), gi |-> location.gi]
    ELSE IF location.tag = "none"
    THEN [loc |-> None, res |-> Outcome("err", <<>>), gi |-> location.gi]
    ELSE [loc |-> location.loc,
          res |-> read_object_from_location(repo, location.gi, sha1, location.loc, 0, <<>>),
          gi  |-> location.gi]

\* Repository::read_object_data: the location found (or none), the outcome
\* and the global index as the call leaves it.
read_object_data(repo, gi, sha1) ==
    ReadLocated(repo, sha1, find_object_location(repo, gi, sha1))

-----------------------------------------------------------------------------
(* The repository on disk, as a handle finds it.                           *)

Repo == [pack_dir    |-> pack_dir,
         index_files |-> index_files,
         packs       |-> packs,
         loose       |-> loose,
         checks      |-> overflow_checks]

\* The ascending sequence of a set of ids (a well-formed index is sorted).
RECURSIVE SortedIds(_)
SortedIds(S) ==
    IF S = {} THEN <<>>
    ELSE LET m == CHOOSE x \in S : \A y \in S : x = y \/ HashLess(x, y)
         IN <<m>> \o SortedIds(S \ {m})

\* An index file of a pack listing the ids of S, the k-th at offset k.
IndexOf(pack, S, status) ==
    [pack |-> pack, status |-> status,
     entries |-> LET ids == SortedIds(S) IN [k \in 1..Len(ids) |-> <<ids[k], k>>]]

SmallSets(S, n) == { T \in SUBSET S : Cardinality(T) <= n }

\* A loose blob of 56 bytes, so that its framed form fills the 64-byte window.
PayloadLen == 56
LooseBlob(v) == Framed("blob", [k \in 1..PayloadLen |-> IF k = 1 THEN v ELSE 0])
\* A loose blob whose framed form is shorter than the window.
ShortBlob == Framed("blob", <<1>>)

File(bytes) == [tag |-> "file", bytes |-> bytes]

NoLoose == [id \in Bytes2Ids |-> NoFile]

\* The delta programs of the packs: base size, result size, instructions.
InsertZero    == <<0, 1, 1, 0>>               \* insert the byte 0
CopyOneInsert == <<1, 2, 144, 1, 1, 1>>       \* copy base[0..1], insert the byte 1

FullFrames == { FullFrame("blob", <<0>>), FullFrame("blob", <<1, 1>>),
                FullFrame("commit", <<>>) }

StoreIdle ==
    /\ pack_dir = FALSE
    /\ index_files = <<>>
    /\ packs = [p \in PackIds |-> NoFile]
    /\ loose = NoLoose
    /\ global_index = None
    /\ pack_cache = {}
    /\ store_last = [op |-> "none"]
    /\ halted = FALSE

KvlmIdle ==
    /\ kvlm_raw = <<>>
    /\ kvlm_out = [op |-> "none"]

LogIdle ==
    /\ log_graph = <<>>
    /\ log_heap = <<>>
    /\ log_seen = {}
    /\ log_cache = {}
    /\ log_emitted = <<>>
    /\ log_state = "idle"

\* The entries Repository::init makes below .git, and one it does not make.
EntryNames == {"branches", "objects", "refs", "refs/tags", "refs/heads",
               "description", "HEAD", "config", "hooks"}
NoEntries == [n \in EntryNames |-> [kind |-> "absent", text |-> ""]]

\* The state of every part of the program but the one named.
ToolsIdle(busy) ==
    /\ busy # "idx"   => idx_file = <<>> /\ idx = None /\ idx_last = [op |-> "none"]
    /\ busy # "refs"  => refs = <<>> /\ ref_last = [op |-> "none"]
    /\ busy # "init"  => /\ worktree = "absent"
                         /\ gitdir = [kind |-> "absent", entries |-> NoEntries]
                         /\ init_log = <<>>
    /\ busy # "delta" => delta_in = <<>> /\ delta_out = [op |-> "none"]
    /\ busy # "tree"  => tree_raw = <<>> /\ tree_out = [op |-> "none"]

\* Repositories that differ in what their pack indices list: objects/pack
\* missing, present without an index, or with the indices of up to two packs
\* in either directory order; at most one loose object.
InitLocate ==
    /\ overflow_checks \in BOOLEAN
    /\ pack_dir \in BOOLEAN
    /\ \/ /\ ~pack_dir
          /\ index_files = <<>>
          /\ packs = [p \in PackIds |-> NoFile]
       \/ /\ pack_dir
          /\ packs = [p \in PackIds |->
                        [tag |-> "pack",
                         frames |-> [o \in 1..MaxOffset |-> FullFrame("blob", <<0>>)]]]
          /\ \/ index_files = <<>>
             \/ \E S1 \in SmallSets(Bytes2Ids, MaxIndexed) :
                   \/ index_files = <<IndexOf(1, S1, "ok")>>
                   \/ \E id2 \in { i \in Bytes2Ids : i[2] = 0 } :
                         \/ index_files = <<IndexOf(1, S1, "ok"), IndexOf(2, {id2}, "ok")>>
                         \/ index_files = <<IndexOf(2, {id2}, "ok"), IndexOf(1, S1, "ok")>>
                   \/ index_files = <<IndexOf(1, S1, "ok"), IndexOf(2, {<<0, 0>>}, "err")>>
    /\ \/ loose = NoLoose
       \/ \E id \in Bytes2Ids : loose = [NoLoose EXCEPT ![id] = File(ShortBlob)]
    /\ global_index = None
    /\ pack_cache = {}
    /\ store_last = [op |-> "none"]
    /\ halted = FALSE
    /\ KvlmIdle /\ LogIdle /\ ToolsIdle("none")

\* The frames a pack of InitRead may hold at an offset.
FrameMenu ==
    {NoFrame} \cup FullFrames
    \cup { OfsDeltaFrame(b, CopyOneInsert) : b \in 0..2 }
    \cup { OfsDeltaFrame(1, InsertZero) }
    \cup { RefDeltaFrame(id, CopyOneInsert) :
             id \in { i \in Bytes2Ids : i[1] = 1 } \cup { Sha1(LooseBlob(0)) } }

\* Repositories that differ in what one pack holds: full objects, offset
\* deltas and reference deltas in every arrangement, behind an index that
\* lists one id for every offset (and one more for an offset that
\* holds no frame); at most one loose object, intact or corrupted.
InitRead ==
    /\ overflow_checks \in BOOLEAN
    /\ pack_dir = TRUE
    /\ \/ loose = NoLoose
       \/ \E v \in 0..1 :   \* v = 1: the file's content does not hash to its name
             loose = [NoLoose EXCEPT ![Sha1(LooseBlob(0))] = File(LooseBlob(v))]
    /\ \E S \in { T \in SUBSET { i \in Bytes2Ids : i[1] < MaxByte } :
                     Cardinality(T) = MaxOffset } :
          index_files =
            << [pack |-> 1, status |-> "ok",
                entries |-> IndexOf(1, S, "ok").entries
                            \o << << <<MaxByte, 0>>, MaxOffset + 1 >> >>] >>
    /\ \E fs \in [1..MaxOffset -> FrameMenu] :
          packs = [p \in PackIds |->
                     IF p = 1 THEN [tag |-> "pack", frames |-> fs] ELSE NoFile]
    /\ global_index = None
    /\ pack_cache = {}
    /\ store_last = [op |-> "none"]
    /\ halted = FALSE
    /\ KvlmIdle /\ LogIdle /\ ToolsIdle("none")

\* What a call of read_object_data leaves behind: the global index it built,
\* the packs it opened, and its result.
ReadDone(sha1, r) ==
    /\ global_index' = r.gi
    /\ store_last' = [op |-> "read", id |-> sha1, loc |-> r.loc, res |-> r.res]
    /\ halted' = (r.res.tag \in {"panic", "abort"})
    /\ pack_cache' = pack_cache \cup
          (IF r.loc.tag = "pack" /\ open_pack(Repo, r.loc.pack).tag = "ok"
           THEN {r.loc.pack} ELSE {})
          \cup { r.res.trail[k][1] : k \in 1..Len(r.res.trail) }

\* A call of Repository::read_object_data(sha1) on the handle.  A panic or a
\* stack overflow ends the process.
ReadObjectData(sha1) ==
    /\ ~halted
    /\ ReadDone(sha1, read_object_data(Repo, global_index, sha1))
    /\ UNCHANGED <<overflow_checks, pack_dir, index_files, packs, loose>>
    /\ UNCHANGED <<kvlmVars, logVars, toolVars>>

StoreNext == \E sha1 \in Bytes2Ids : ReadObjectData(sha1)

SpecLocate == InitLocate /\ [][StoreNext]_vars
SpecRead   == InitRead /\ [][StoreNext]_vars

-----------------------------------------------------------------------------
(* Key-value lists with message (kvlm.rs): the body of commits and tags.   *)
(* Offsets are the code's 0-based offsets; At reads the byte at an offset. *)

At(raw, i) == raw[i + 1]

\* &raw[a..b]
Slice(raw, a, b) == SubSeq(raw, a + 1, b)

\* kvlm_clean_value's loop: compacts the value in place, dropping the space
\* that follows a newline; returns the buffer and the offset after the last
\* byte written.
RECURSIVE CleanLoop(_, _, _, _)
CleanLoop(vec, rangeEnd, i, skip) ==
    IF i + skip >= rangeEnd THEN [vec |-> vec, i |-> i]
    ELSE LET skip2 == IF At(vec, i + skip - 1) = NL /\ At(vec, i + skip) = SP
                      THEN skip + 1 ELSE skip
         IN IF i + skip2 >= rangeEnd THEN [vec |-> vec, i |-> i]
            ELSE CleanLoop([vec EXCEPT ![i + 1] = At(vec, i + skip2)],
                           rangeEnd, i + 1, skip2)

kvlm_clean_value(vec, rangeStart, rangeEnd) ==
    IF rangeStart >= Len(vec) THEN [vec |-> vec, i |-> rangeStart]
    ELSE CleanLoop(vec, rangeEnd, rangeStart + 1, 0)

\* The loop of kvlm_parse_rec that finds where the value ends.  The argument
\* of unwrap_or is computed before the search, so it underflows when end is
\* the length of the buffer.
RECURSIVE ValueEnd(_, _, _)
ValueEnd(raw, end, checks) ==
    LET fallback == IF Len(raw) >= end + 1 THEN [tag |-> "ok", v |-> Len(raw) - end - 1]
                    ELSE IF checks THEN Panic
                    ELSE [tag |-> "ok", v |-> UsizeModulus + Len(raw) - end - 1]
        pos      == PositionFrom(raw, NL, end + 1)
    IN  IF fallback.tag = "panic" THEN Panic
        ELSE LET end2 == IF pos >= 0 THEN pos ELSE (end + fallback.v) % UsizeModulus IN
             IF end2 + 1 >= Len(raw) \/ At(raw, end2 + 1) # SP
             THEN [tag |-> "ok", v |-> end2]
             ELSE ValueEnd(raw, end2 + 1, checks)

\* The position of a key in the ordered map, or 0.
KeyIndex(map, key) ==
    IF \E k \in 1..Len(map) : map[k].key = key
    THEN CHOOSE k \in 1..Len(map) : map[k].key = key
    ELSE 0

\* OrderedHashMap::insert: a new key goes last, a present key keeps its place
\* and takes the new value.
MapInsert(map, key, vals) ==
    LET k == KeyIndex(map, key) IN
    IF k = 0 THEN Append(map, [key |-> key, vals |-> vals])
    ELSE [map EXCEPT ![k].vals = vals]

\* map.get_mut(&key) then push, else insert
MapPush(map, key, value) ==
    LET k == KeyIndex(map, key) IN
    IF k = 0 THEN Append(map, [key |-> key, vals |-> <<value>>])
    ELSE [map EXCEPT ![k].vals = Append(@, value)]

RECURSIVE kvlm_parse_rec(_, _, _, _)
kvlm_parse_rec(raw, map, i, checks) ==
    IF Len(raw) = i THEN [tag |-> "ok", raw |-> raw, map |-> map]
    ELSE IF At(raw, i) = NL
    THEN [tag |-> "ok", raw |-> raw,
          map |-> MapInsert(map, <<>>, << <<i + 1, Len(raw)>> >>)]
    ELSE LET spc == PositionFrom(raw, SP, i + 1) IN
    IF spc < 0 THEN Err
    ELSE LET key == Slice(raw, i, spc)
             end == ValueEnd(raw, spc + 1, checks)
         IN
    IF end.tag = "panic" THEN Panic
    ELSE LET cleaned == kvlm_clean_value(raw, spc + 1, end.v)
             value   == <<spc + 1, cleaned.i>>
         IN kvlm_parse_rec(cleaned.vec, MapPush(map, key, value), end.v + 1, checks)

kvlm_parse(raw, checks) == kvlm_parse_rec(raw, <<>>, 0, checks)

\* slice.split(|&b| b == b'\n'): the pieces between newlines, an empty piece
\* after a final newline included.
RECURSIVE SplitLines(_)
SplitLines(bytes) ==
    LET p == Position(bytes, NL) IN
    IF p < 0 THEN <<bytes>>
    ELSE <<Slice(bytes, 0, p)>> \o SplitLines(Slice(bytes, p + 1, Len(bytes)))

RECURSIVE Flatten(_)
Flatten(seqs) == IF seqs = <<>> THEN <<>> ELSE Head(seqs) \o Flatten(Tail(seqs))

\* One value of a key as kvlm_serialize writes it: every line of the value
\* behind a space and in front of a newline.
SerializeValue(data, range) ==
    LET lines == SplitLines(Slice(data, range[1], range[2])) IN
    Flatten([k \in 1..Len(lines) |-> <<SP>> \o lines[k] \o <<NL>>])

SerializeEntry(data, entry) ==
    IF entry.key = <<>> THEN <<>>
    ELSE entry.key \o Flatten([k \in 1..Len(entry.vals) |-> SerializeValue(data, entry.vals[k])])

kvlm_serialize(data, map) ==
    LET body == Flatten([k \in 1..Len(map) |-> SerializeEntry(data, map[k])])
        rest == KeyIndex(map, <<>>)
    IN  IF rest = 0 THEN body
        ELSE body \o <<NL>>
             \o Flatten([k \in 1..Len(map[rest].vals) |->
                            Slice(data, map[rest].vals[k][1], map[rest].vals[k][2])])

\* The ordered multi-map with every range replaced by the bytes it denotes.
Materialise(res) ==
    [k \in 1..Len(res.map) |->
        [key  |-> res.map[k].key,
         vals |-> [j \in 1..Len(res.map[k].vals) |->
                     Slice(res.raw, res.map[k].vals[j][1], res.map[k].vals[j][2])]]]

\* Buffers of at most MaxRaw bytes over a space, a newline and a letter.
MaxRaw == 9
Alphabet == {SP, NL, 97}
Buffers == UNION { [1..n -> Alphabet] : n \in 0..MaxRaw }

InitKvlm ==
    /\ overflow_checks \in BOOLEAN
    /\ kvlm_raw \in Buffers
    /\ kvlm_out = [op |-> "none"]
    /\ StoreIdle
    /\ LogIdle
    /\ ToolsIdle("none")

\* CommitObject::from / TagObject::from: kvlm_parse on the body.
KvlmParse ==
    /\ kvlm_out.op = "none"
    /\ kvlm_out' = [op |-> "parse", res |-> kvlm_parse(kvlm_raw, overflow_checks)]
    /\ UNCHANGED <<kvlm_raw, storeVars, logVars, toolVars>>

\* GitObject::serialize of the parsed object: kvlm_serialize.
KvlmSerialize ==
    /\ kvlm_out.op = "parse"
    /\ kvlm_out.res.tag = "ok"
    /\ kvlm_out' = [op |-> "serialize", res |-> kvlm_out.res,
                    ser |-> kvlm_serialize(kvlm_out.res.raw, kvlm_out.res.map)]
    /\ UNCHANGED <<kvlm_raw, storeVars, logVars, toolVars>>

\* The serialized body parsed again.
KvlmReparse ==
    /\ kvlm_out.op = "serialize"
    /\ kvlm_out' = [op |-> "reparse", res |-> kvlm_out.res, ser |-> kvlm_out.ser,
                    res2 |-> kvlm_parse(kvlm_out.ser, overflow_checks)]
    /\ UNCHANGED <<kvlm_raw, storeVars, logVars, toolVars>>

KvlmNext == KvlmParse \/ KvlmSerialize \/ KvlmReparse

SpecKvlm == InitKvlm /\ [][KvlmNext]_vars

-----------------------------------------------------------------------------
(* The log iterator (logiterator.rs) over the commits of a repository.     *)

\* Commits are 1..MaxCommits, 1 the newest; Missing names no object.
MaxCommits == 3
MaxSecs == 2
CommitIds == 1..MaxCommits
Missing == MaxCommits + 1

\* The value of a commit's committer record: "n <secs> z" as git writes it
\* (name, seconds, zone), or the number alone.
CommitterValue(form, secs) ==
    IF form = "full" THEN <<110, SP>> \o Decimal(secs) \o <<SP, 122>>
    ELSE Decimal(secs)

\* str::parse::<u32>() followed by unwrap_or(0), on a short string
ParseU32OrZero(s) == IF IsDigits(s) THEN ParseUsize(s) ELSE 0

\* CommitObject::committer_timestamp
committer_timestamp(commit) ==
    IF commit.form = "absent" THEN 0
    ELSE ParseU32OrZero(CommitterValue(commit.form, commit.secs))

\* CommitObject::parents
parents(commit) == commit.parents

\* LogIterator::read_commit: the commit and the cache it leaves, or an error.
read_commit(graph, cache, sha1) ==
    IF sha1 \in cache THEN [tag |-> "ok", commit |-> graph[sha1], cache |-> cache]
    ELSE IF graph[sha1].tag = "commit"
    THEN [tag |-> "ok", commit |-> graph[sha1], cache |-> cache \cup {sha1}]
    ELSE [tag |-> "err", cache |-> cache]

\* BinaryHeap<HeapItem>: a vector in heap order, compared by timestamp only.
\* Offsets are 0-based as in the vector.
HeapSwap(data, i, j) == [data EXCEPT ![i + 1] = data[j + 1], ![j + 1] = data[i + 1]]

HeapItemLe(a, b) == a[1] <= b[1]

RECURSIVE sift_up(_, _, _)
sift_up(data, start, pos) ==
    IF pos <= start THEN data
    ELSE LET parent == (pos - 1) \div 2 IN
         IF HeapItemLe(data[pos + 1], data[parent + 1]) THEN data
         ELSE sift_up(HeapSwap(data, pos, parent), start, parent)

RECURSIVE SiftDownLoop(_, _, _)
SiftDownLoop(data, pos, end) ==
    LET child == 2 * pos + 1 IN
    IF end >= 2 /\ child <= end - 2
    THEN LET c == IF HeapItemLe(data[child + 1], data[child + 2]) THEN child + 1 ELSE child
         IN SiftDownLoop(HeapSwap(data, pos, c), c, end)
    ELSE IF child = end - 1 THEN [data |-> HeapSwap(data, pos, child), pos |-> child]
    ELSE [data |-> data, pos |-> pos]

sift_down_to_bottom(data, pos) ==
    LET r == SiftDownLoop(data, pos, Len(data)) IN sift_up(r.data, pos, r.pos)

\* BinaryHeap::push
heap_push(data, item) == sift_up(Append(data, item), 0, Len(data))

\* BinaryHeap::pop on a heap that is not empty: the root, and the heap with
\* its last item moved to the root and sifted down.
heap_pop(data) ==
    LET last == data[Len(data)]
        rest == SubSeq(data, 1, Len(data) - 1)
    IN  IF rest = <<>> THEN [item |-> last, data |-> rest]
        ELSE [item |-> rest[1],
              data |-> sift_down_to_bottom([rest EXCEPT ![1] = last], 0)]

seen_insert_always(seen, current) == TRUE

\* HashSet::insert: whether the id was new
seen_insert(seen, current) == current \notin seen

\* The loop at the head of next(): pops until an id is new to seen.
RECURSIVE PopUnseen(_, _)
PopUnseen(heap, seen) ==
    IF heap = <<>> THEN [tag |-> "none", heap |-> heap, seen |-> seen]
    ELSE LET p == heap_pop(heap) IN
         IF seen_insert(seen, p.item[2])
         THEN [tag |-> "some", current |-> p.item[2], heap |-> p.data,
               seen |-> seen \cup {p.item[2]}]
         ELSE PopUnseen(p.data, seen)

\* The loop over commit.parents() cut short after the first parent.
PushFirstParent(graph, ps, heap, cache) ==
    IF ps = <<>> THEN [heap |-> heap, cache |-> cache]
    ELSE LET next_commit == read_commit(graph, cache, Head(ps)) IN
         IF next_commit.tag = "ok"
         THEN [heap |-> heap_push(heap, <<committer_timestamp(next_commit.commit), Head(ps)>>),
               cache |-> next_commit.cache]
         ELSE [heap |-> heap, cache |-> next_commit.cache]

\* The loop over commit.parents() with the unreadable parents pushed too,
\* under the timestamp 0.
RECURSIVE PushUnreadParents(_, _, _, _)
PushUnreadParents(graph, ps, heap, cache) ==
    IF ps = <<>> THEN [heap |-> heap, cache |-> cache]
    ELSE LET next_commit == read_commit(graph, cache, Head(ps))
             timestamp   == IF next_commit.tag = "ok"
                            THEN committer_timestamp(next_commit.commit) ELSE 0
         IN PushUnreadParents(graph, Tail(ps), heap_push(heap, <<timestamp, Head(ps)>>),
                              next_commit.cache)

\* The loop over commit.parents() in next(): every parent that can be read
\* is pushed with its timestamp.
RECURSIVE PushParents(_, _, _, _)
PushParents(graph, ps, heap, cache) ==
    IF ps = <<>> THEN [heap |-> heap, cache |-> cache]
    ELSE LET next_commit == read_commit(graph, cache, Head(ps)) IN
         IF next_commit.tag = "ok"
         THEN PushParents(graph, Tail(ps),
                          heap_push(heap, <<committer_timestamp(next_commit.commit), Head(ps)>>),
                          next_commit.cache)
         ELSE PushParents(graph, Tail(ps), heap, next_commit.cache)

Commit(ps, form, secs) == [tag |-> "commit", parents |-> ps, form |-> form, secs |-> secs]

\* The ascending sequence of a set of numbers.
RECURSIVE Ascending(_)
Ascending(S) ==
    IF S = {} THEN <<>>
    ELSE LET m == CHOOSE x \in S : \A y \in S : x <= y IN <<m>> \o Ascending(S \ {m})

\* Histories: every commit lists older commits as parents, the oldest may
\* list a parent that is not in the repository; committer records are all
\* in git's format or all a bare number.
InitLog ==
    /\ overflow_checks \in BOOLEAN
    /\ StoreIdle
    /\ KvlmIdle
    /\ ToolsIdle("none")
    /\ \E form \in {"full", "bare"} :
       \E ps \in [CommitIds -> SUBSET (2..Missing)] :
       \E secs \in [CommitIds -> 1..MaxSecs] :
          /\ \A c \in CommitIds :
                /\ \A p \in ps[c] : p > c
                /\ Missing \in ps[c] => c = MaxCommits
          /\ log_graph = [c \in 1..Missing |->
                            IF c = Missing THEN NoFile
                            ELSE Commit(Ascending(ps[c]), form, secs[c])]
    /\ log_heap = <<>>
    /\ log_seen = {}
    /\ log_cache = {}
    /\ log_emitted = <<>>
    /\ log_state = "idle"

\* LogIterator::new(repository, sha1)
LogNew(sha1) ==
    /\ log_state = "idle"
    /\ LET commit == read_commit(log_graph, {}, sha1) IN
       IF commit.tag = "ok"
       THEN /\ log_heap' = heap_push(<<>>, <<committer_timestamp(commit.commit), sha1>>)
            /\ log_cache' = commit.cache
            /\ log_state' = "open"
       ELSE /\ log_heap' = <<>>
            /\ log_cache' = {}
            /\ log_state' = "failed"
    /\ UNCHANGED <<log_graph, log_seen, log_emitted, storeVars, kvlmVars, toolVars>>

\* Iterator::next on the open iterator.  An emitted line is recorded by its
\* id, an Err item by 0.
LogNext ==
    /\ log_state = "open"
    /\ LET popped == PopUnseen(log_heap, log_seen) IN
       IF popped.tag = "none"
       THEN /\ log_state' = "done"
            /\ log_heap' = popped.heap
            /\ log_seen' = popped.seen
            /\ UNCHANGED <<log_cache, log_emitted>>
       ELSE LET commit == read_commit(log_graph, log_cache, popped.current) IN
            IF commit.tag = "err"
            THEN /\ log_emitted' = Append(log_emitted, 0)
                 /\ log_heap' = popped.heap
                 /\ log_seen' = popped.seen
                 /\ log_cache' = commit.cache
                 /\ UNCHANGED log_state
            ELSE LET pushed == PushParents(log_graph, parents(commit.commit),
                                           popped.heap, commit.cache) IN
                 /\ log_emitted' = Append(log_emitted, popped.current)
                 /\ log_heap' = pushed.heap
                 /\ log_seen' = popped.seen
                 /\ log_cache' = pushed.cache
                 /\ UNCHANGED log_state
    /\ UNCHANGED <<log_graph, storeVars, kvlmVars, toolVars>>

LogStep == (\E sha1 \in {1, Missing} : LogNew(sha1)) \/ LogNext

SpecLog == InitLog /\ [][LogStep]_vars

\* The caller of the iterator (`for line in log`) calls next() until it
\* returns None.
SpecLogWalk == InitLog /\ [][LogStep]_vars /\ WF_vars(LogNext)

\* Histories of TieCommits commits that all carry the same committer time:
\* every commit lists older commits as parents, all of them readable.
TieCommits == 5

InitLogTies ==
    /\ overflow_checks = FALSE
    /\ StoreIdle
    /\ KvlmIdle
    /\ ToolsIdle("none")
    /\ \E form \in {"full", "bare"} :
       \E ps \in [1..TieCommits -> SUBSET (2..TieCommits)] :
          /\ \A c \in 1..TieCommits : \A p \in ps[c] : p > c
          /\ log_graph = [c \in 1..TieCommits |-> Commit(Ascending(ps[c]), form, 1)]
    /\ log_heap = <<>>
    /\ log_seen = {}
    /\ log_cache = {}
    /\ log_emitted = <<>>
    /\ log_state = "idle"

LogTiesStep == LogNew(1) \/ LogNext

SpecLogTies == InitLogTies /\ [][LogTiesStep]_vars

-----------------------------------------------------------------------------
(* One pack index (src/src/packindex.rs): PackIndex::new on the bytes of a *)
(* pack-*.idx file and PackIndex::find on the index it built.              *)

\* The bytes of an id ([u8; 20] in the code) and the entries of the fanout
\* table ([u32; 256] in the code), cut to the id space of the model.
IdLen == 2
FanoutLen == MaxByte + 1

\* b"\xff\x74\x4f\x63"
Magic == <<255, 116, 79, 99>>

\* u32::from_be_bytes / u64::from_be_bytes
RECURSIVE BeValue(_)
BeValue(b) ==
    IF b = <<>> THEN 0 ELSE 256 * BeValue(SubSeq(b, 1, Len(b) - 1)) + b[Len(b)]

\* n & 0x8000_0000 != 0 and n & 0x7fff_ffff on the four bytes of a u32
HighBit(b) == b[1] >= 128
LowBits(b) == BeValue(<<b[1] % 128>> \o Tail(b))

\* reader.read_exact of n bytes at position pos (1-based) of the file
ReadExact(file, pos, n) ==
    IF pos + n - 1 > Len(file) THEN Err
    ELSE [tag |-> "ok", bytes |-> SubSeq(file, pos, pos + n - 1), pos |-> pos + n]

\* buf.chunks_exact(w)
Chunks(buf, w) == [k \in 1..(Len(buf) \div w) |-> SubSeq(buf, (k - 1) * w + 1, k * w)]

\* packindex::check_header: the magic and version 2
check_header(file) ==
    LET header == ReadExact(file, 1, 4) IN
    IF header.tag = "err" THEN Err
    ELSE IF header.bytes # Magic THEN Err
    ELSE LET version == ReadExact(file, 5, 4) IN
         IF version.tag = "err" THEN Err
         ELSE IF BeValue(version.bytes) # 2 THEN Err
         ELSE [tag |-> "ok", pos |-> 9]

\* The end of PackIndex::new: HashingReader::finalize over the bytes read so
\* far, the trailing digest, and the assert_eq! on the two.
CheckIndexSha1(file, pos, index) ==
    LET actual_index_sha1 == Sha1(SubSeq(file, 1, pos - 1))
        index_sha1 == ReadExact(file, pos, IdLen)
    IN  IF index_sha1.tag = "err" THEN Err
        ELSE IF actual_index_sha1 # index_sha1.bytes THEN Panic
        ELSE [tag |-> "ok", index |-> index]

\* PackIndex::new after the fanout table: the hash, crc32, offset and 64-bit
\* offset tables and the pack's digest, each a read_exact that may fail.
ReadTables(file, pos, fanout) ==
    LET items  == fanout[MaxByte]
        hashes == ReadExact(file, pos, IdLen * items)
    IN  IF hashes.tag = "err" THEN Err
    ELSE LET crc32 == ReadExact(file, hashes.pos, 4 * items) IN
         IF crc32.tag = "err" THEN Err
    ELSE LET offsets == ReadExact(file, crc32.pos, 4 * items) IN
         IF offsets.tag = "err" THEN Err
    ELSE LET table == Chunks(offsets.bytes, 4)
             wide  == Cardinality({ k \in 1..Len(table) : HighBit(table[k]) })
             offsets64 == ReadExact(file, offsets.pos, 8 * wide)
         IN IF offsets64.tag = "err" THEN Err
    ELSE LET pack_sha1 == ReadExact(file, offsets64.pos, IdLen) IN
         IF pack_sha1.tag = "err" THEN Err
         ELSE CheckIndexSha1(file, pack_sha1.pos,
                  [fanout    |-> fanout,
                   hashes    |-> Chunks(hashes.bytes, IdLen),
                   offsets   |-> table,
                   offsets64 |-> Chunks(offsets64.bytes, 8),
                   pack_sha1 |-> pack_sha1.bytes])

\* PackIndex::new
PackIndex_new(file) ==
    LET hdr == check_header(file) IN
    IF hdr.tag = "err" THEN Err
    ELSE LET fan == ReadExact(file, hdr.pos, 4 * FanoutLen) IN
         IF fan.tag = "err" THEN Err
         ELSE ReadTables(file, fan.pos,
                  [b \in 0..MaxByte |-> BeValue(Chunks(fan.bytes, 4)[b + 1])])

\* The while loop of PackIndex::search_hash; left, right and i are 0-based.
RECURSIVE SearchHashLoop(_, _, _, _, _)
SearchHashLoop(index, sha1, left, right, checks) ==
    IF left > right THEN None
    ELSE LET i == (right - left) \div 2 + left IN
         IF i >= Len(index.hashes) THEN Panic
         ELSE IF HashLess(index.hashes[i + 1], sha1)
              THEN SearchHashLoop(index, sha1, i + 1, right, checks)
         ELSE IF HashLess(sha1, index.hashes[i + 1])
              THEN LET d == UsizeDec(i, checks) IN
                   IF d.tag = "panic" THEN Panic
                   ELSE SearchHashLoop(index, sha1, left, d.v, checks)
         ELSE [tag |-> "some", v |-> i]

\* PackIndex::search_hash
search_hash(index, sha1, checks) ==
    SearchHashLoop(index, sha1,
                   IF sha1[1] = 0 THEN 0 ELSE index.fanout[sha1[1] - 1] + 1,
                   index.fanout[sha1[1]], checks)

\* self.offsets[index], through offsets64 when its high bit is set
OffsetAt(index, i) ==
    LET offset == index.offsets[i + 1] IN
    IF HighBit(offset)
    THEN IF LowBits(offset) >= Len(index.offsets64) THEN Panic
         ELSE [tag |-> "some", v |-> BeValue(index.offsets64[LowBits(offset) + 1])]
    ELSE [tag |-> "some", v |-> BeValue(offset)]

\* PackIndex::find
PackIndex_find(index, sha1, checks) ==
    LET found == search_hash(index, sha1, checks) IN
    IF found.tag # "some" THEN found ELSE OffsetAt(index, found.v)

\* A version-2 index file as git writes it for the ids of S: fanout[b] counts
\* the ids whose first byte is at most b, the ids ascend, the k-th id is at
\* pack offset 10 + k (the last one through the position spill of the 64-bit
\* table when wide; the table has one entry, so only position 0 is in it),
\* and the digest of everything before it closes the file.
IdxFile(S, wide, spill) ==
    LET ids  == SortedIds(S)
        n    == Len(ids)
        u32(v) == <<0, 0, v \div 256, v % 256>>
        body == Magic \o u32(2)
                \o Flatten([b \in 1..FanoutLen |->
                              u32(Cardinality({ h \in S : h[1] <= b - 1 }))])
                \o Flatten([k \in 1..n |-> ids[k]])
                \o Flatten([k \in 1..n |-> u32(0)])
                \o Flatten([k \in 1..n |->
                              IF wide /\ k = n THEN <<128, 0, 0, spill>> ELSE u32(10 + k)])
                \o (IF wide /\ n > 0 THEN <<0, 0, 0, 0>> \o u32(10 + n) ELSE <<>>)
                \o <<1, 0>>
    IN  body \o Sha1(body)

\* The file as it may sit on disk: intact, with its trailing digest or a byte
\* of its tables altered, with another magic or version, or cut short.
Damaged(file, how) ==
    CASE how = "intact"  -> file
      [] how = "digest"  -> [file EXCEPT ![Len(file)] = (@ + 1) % 256]
      [] how = "table"   -> [file EXCEPT ![Len(file) - IdLen] = (@ + 1) % 256]
      [] how = "magic"   -> [file EXCEPT ![1] = 0]
      [] how = "version" -> [file EXCEPT ![8] = 3]
      [] how = "short"   -> SubSeq(file, 1, Len(file) - 1)

InitIndex ==
    /\ overflow_checks \in BOOLEAN
    /\ \E S \in SmallSets(Bytes2Ids, MaxIndexed) : \E wide \in BOOLEAN :
       \E spill \in 0..1 :
       \E how \in {"intact", "digest", "table", "magic", "version", "short"} :
          idx_file = Damaged(IdxFile(S, wide, spill), how)
    /\ idx = None
    /\ idx_last = [op |-> "none"]
    /\ StoreIdle /\ KvlmIdle /\ LogIdle /\ ToolsIdle("idx")

\* PackIndex::new(reader) on the file.  A failed assert_eq! ends the process.
PackIndexNew ==
    /\ idx_last.op = "none"
    /\ LET res == PackIndex_new(idx_file) IN
       /\ idx' = IF res.tag = "ok" THEN [tag |-> "some", index |-> res.index] ELSE None
       /\ idx_last' = [op |-> "new", id |-> <<0, 0>>, res |-> [tag |-> res.tag, v |-> 0]]
    /\ UNCHANGED <<idx_file, refVars, initVars, deltaVars, treeVars>>
    /\ UNCHANGED <<storeVars, kvlmVars, logVars>>

\* PackIndex::find(sha1) on the loaded index.  A panic ends the process.
PackIndexFind(sha1) ==
    /\ idx.tag = "some"
    /\ idx_last.res.tag # "panic"
    /\ LET res == PackIndex_find(idx.index, sha1, overflow_checks) IN
       idx_last' = [op |-> "find", id |-> sha1,
                    res |-> [tag |-> res.tag, v |-> IF res.tag = "some" THEN res.v ELSE 0]]
    /\ UNCHANGED <<idx_file, idx, refVars, initVars, deltaVars, treeVars>>
    /\ UNCHANGED <<storeVars, kvlmVars, logVars>>

IndexNext == PackIndexNew \/ \E sha1 \in Bytes2Ids : PackIndexFind(sha1)

SpecIndex == InitIndex /\ [][IndexNext]_vars

-----------------------------------------------------------------------------
(* Reference resolution (Repository::find_object).                         *)

\* The value of a hex digit, or -1.
HexVal(c) ==
    IF c \in 48..57 THEN c - 48
    ELSE IF c \in 97..102 THEN c - 87
    ELSE IF c \in 65..70 THEN c - 55
    ELSE -1

\* hex::decode: an error on an odd length or on a character that is no hex
\* digit, else one byte for every two digits.
decode(s) ==
    IF Len(s) % 2 # 0 \/ \E k \in 1..Len(s) : HexVal(s[k]) < 0 THEN Err
    ELSE [tag |-> "ok",
          bytes |-> [k \in 1..(Len(s) \div 2) |-> 16 * HexVal(s[2 * k - 1]) + HexVal(s[2 * k])]]

trim_end_none(s) == s

\* str::trim_end_matches([' ', '\t', '\n', '\r'])
RECURSIVE trim_end_matches(_)
trim_end_matches(s) ==
    IF s # <<>> /\ s[Len(s)] \in {SP, 9, NL, 13}
    THEN trim_end_matches(SubSeq(s, 1, Len(s) - 1))
    ELSE s

\* "ref: "
RefPrefix == <<114, 101, 102, 58, SP>>

\* str::strip_prefix("ref: ")
strip_prefix(s) ==
    IF Len(s) >= Len(RefPrefix) /\ SubSeq(s, 1, Len(RefPrefix)) = RefPrefix
    THEN [tag |-> "some", rest |-> SubSeq(s, Len(RefPrefix) + 1, Len(s))]
    ELSE None

\* String::from_utf8 over the bytes of the model, whose only byte above 0x7f
\* is a lone 0xff.
IsUtf8(bytes) == \A k \in 1..Len(bytes) : bytes[k] < 128

\* repo_file(refs/heads/<name>, false) followed by buf.is_file()
IsRefFile(heads, name) == name \in DOMAIN heads /\ heads[name].tag = "file"

\* The names under refs/heads that the model looks at: m, z, 0101, 01, 0m.
RefNames == { <<109>>, <<122>>, <<48, 49, 48, 49>>, <<48, 49>>, <<48, 109>> }

\* Deeper than any chain of distinct references: the thread's stack is spent.
RefStackLimit == Cardinality(RefNames) + 2

\* The if-let on decode(name) and try_into::<[u8; 20]> at the head of
\* find_object, and the same two steps on the content of a reference file.
AsId(s) ==
    LET hash == decode(s) IN
    IF hash.tag = "ok" /\ Len(hash.bytes) = IdLen
    THEN [tag |-> "ok", id |-> hash.bytes]
    ELSE [tag |-> "err", id |-> <<>>]

\* Repository::find_object
RECURSIVE find_object(_, _, _)
find_object(heads, name, depth) ==
    IF depth > RefStackLimit THEN [tag |-> "abort", id |-> <<>>]
    ELSE IF AsId(name).tag = "ok" THEN AsId(name)
    ELSE IF IsRefFile(heads, name)
    THEN IF ~IsUtf8(heads[name].bytes) THEN [tag |-> "err", id |-> <<>>]
         ELSE LET ref_contents == trim_end_matches(heads[name].bytes)
                  stripped     == strip_prefix(ref_contents)
              IN IF stripped.tag = "some"
                 THEN find_object(heads, stripped.rest, depth + 1)
                 ELSE AsId(ref_contents)
    ELSE [tag |-> "err", id |-> <<>>]

\* What a file under refs/heads may hold: an id in hex with or without
\* trailing whitespace, in either case of the digits; a symbolic reference
\* to a name; hex of the wrong length or with a wrong digit; nothing; bytes
\* that are no UTF-8.
RefContents ==
    { <<48, 48, 48, 49, NL>>, <<48, 65, 48, 98, 13, NL>>, <<48, 49, 48, 48, SP, 9>>,
      <<48, 49, 48, 48>>,
      RefPrefix \o <<109>>, RefPrefix \o <<122, NL>>, RefPrefix \o <<48, 49, 48, 49>>,
      RefPrefix \o <<48, 49, NL>>, RefPrefix,
      <<48, 49, NL>>, <<48, 48, 48, 49, 48, 50>>, <<48, 103, 48, 49>>, <<48, 48, 49>>,
      <<>>, <<255>> }

\* At most two files under refs/heads.
InitRefs ==
    /\ overflow_checks = FALSE
    /\ \E a, b \in RefNames : \E ca, cb \in RefContents \cup {<<0>>} :
          refs = [n \in RefNames |->
                    IF n = a /\ ca # <<0>> THEN File(ca)
                    ELSE IF n = b /\ cb # <<0>> THEN File(cb)
                    ELSE NoFile]
    /\ ref_last = [op |-> "none"]
    /\ StoreIdle /\ KvlmIdle /\ LogIdle /\ ToolsIdle("refs")

\* A call of Repository::find_object(name).
FindObject(name) ==
    /\ ref_last' = [op |-> "find", name |-> name, res |-> find_object(refs, name, 0)]
    /\ UNCHANGED <<refs, idxVars, initVars, deltaVars, treeVars>>
    /\ UNCHANGED <<storeVars, kvlmVars, logVars>>

RefsNext == \E name \in RefNames \cup {<<>>, <<48, 48, 48, 49>>} : FindObject(name)

SpecRefs == InitRefs /\ [][RefsNext]_vars

-----------------------------------------------------------------------------
(* Repository::init on a worktree path.                                    *)

Absent  == [kind |-> "absent", text |-> ""]
Dir     == [kind |-> "dir", text |-> ""]
Text(t) == [kind |-> "file", text |-> t]

\* A path with the directories above it, outermost first, below .git.
Components(p) ==
    IF p = "refs/tags" THEN <<"refs", "refs/tags">>
    ELSE IF p = "refs/heads" THEN <<"refs", "refs/heads">>
    ELSE <<p>>

\* std::fs::create_dir_all on the components of a path: a directory that is
\* there stays, a missing one is made, a file in the way is an error.
RECURSIVE create_dir_all(_, _)
create_dir_all(entries, comps) ==
    IF comps = <<>> THEN [tag |-> "ok", entries |-> entries]
    ELSE IF entries[Head(comps)].kind = "file" THEN [tag |-> "err", entries |-> entries]
    ELSE create_dir_all([entries EXCEPT ![Head(comps)] = Dir], Tail(comps))

\* Repository::repo_mkdir on the directories of init, in its order.  .git
\* itself is the first component of every path.
RECURSIVE repo_mkdir(_, _)
repo_mkdir(dir, ps) ==
    IF ps = <<>> THEN [tag |-> "ok", dir |-> dir]
    ELSE IF dir.kind = "file" THEN [tag |-> "err", dir |-> dir]
    ELSE LET made == create_dir_all(dir.entries, Components(Head(ps))) IN
         IF made.tag = "err" THEN [tag |-> "err", dir |-> [kind |-> "dir", entries |-> made.entries]]
         ELSE repo_mkdir([kind |-> "dir", entries |-> made.entries], Tail(ps))

\* The files init writes: description, HEAD, and default_config().writes().
InitFiles ==
    << <<"description", "Unnamed repository; edit this file 'description' to name the repository.\n">>,
       <<"HEAD", "ref: refs/heads/master\n">>,
       <<"config", "[core]\nrepositoryformatversion=0\nfilemode=false\nbare=false\n">> >>

\* The loop over files: File::create_new fails on a name that exists, else
\* the content is written.
RECURSIVE CreateFiles(_, _)
CreateFiles(dir, files) ==
    IF files = <<>> THEN [tag |-> "ok", dir |-> dir]
    ELSE IF dir.entries[Head(files)[1]].kind # "absent" THEN [tag |-> "err", dir |-> dir]
    ELSE CreateFiles([dir EXCEPT !.entries[Head(files)[1]] = Text(Head(files)[2])], Tail(files))

read_dir_skip(dir) == TRUE

\* self.gitdir.read_dir()?.next().is_none()
read_dir_is_empty(dir) == \A n \in EntryNames : dir.entries[n].kind = "absent"

\* The directories and files of init once its checks have passed.
MakeSkeleton(wt, made) ==
    IF made.tag = "err" THEN [tag |-> "err", worktree |-> wt, gitdir |-> made.dir]
    ELSE LET written == CreateFiles(made.dir, InitFiles) IN
         [tag |-> written.tag, worktree |-> wt, gitdir |-> written.dir]

\* Repository::init: the result and what is on disk after the call.
init(wt, dir) ==
    IF wt # "absent" /\ wt # "dir" THEN [tag |-> "err", worktree |-> wt, gitdir |-> dir]
    ELSE IF wt = "dir" /\ dir.kind = "file" THEN [tag |-> "err", worktree |-> wt, gitdir |-> dir]
    ELSE IF wt = "dir" /\ dir.kind = "dir" /\ ~read_dir_is_empty(dir)
    THEN [tag |-> "err", worktree |-> wt, gitdir |-> dir]
    ELSE MakeSkeleton("dir",
             repo_mkdir(dir, <<"branches", "objects", "refs/tags", "refs/heads">>))

\* A new handle calls init at most this often.
MaxInits == 3

\* What init may find: no worktree, a file at its path, or a directory in
\* which .git is missing, a file, or a directory with any of the entries of
\* a repository in it (a path only below a directory), with other content
\* in the files.
InitRepoInit ==
    /\ overflow_checks = FALSE
    /\ worktree \in {"absent", "file", "dir"}
    /\ \/ gitdir = [kind |-> "absent", entries |-> NoEntries]
       \/ /\ worktree = "dir"
          /\ \/ gitdir = [kind |-> "file", entries |-> NoEntries]
             \/ \E present \in SUBSET EntryNames :
                   /\ present \cap {"refs/tags", "refs/heads"} # {} => "refs" \in present
                   /\ gitdir = [kind |-> "dir",
                                entries |-> [n \in EntryNames |->
                                    IF n \notin present THEN Absent
                                    ELSE IF n \in {"description", "HEAD", "config"}
                                         THEN Text("old") ELSE Dir]]
    /\ init_log = <<>>
    /\ StoreIdle /\ KvlmIdle /\ LogIdle /\ ToolsIdle("init")

\* A call of Repository::init on a handle for the path.
RepoInit ==
    /\ Len(init_log) < MaxInits
    /\ LET res == init(worktree, gitdir) IN
       /\ worktree' = res.worktree
       /\ gitdir' = res.gitdir
       /\ init_log' = Append(init_log, res.tag)
    /\ UNCHANGED <<idxVars, refVars, deltaVars, treeVars>>
    /\ UNCHANGED <<storeVars, kvlmVars, logVars>>

SpecInit == InitRepoInit /\ [][RepoInit]_vars

-----------------------------------------------------------------------------
(* Repository::write_object through a HashingReader.                       *)

\* The bytes one read() call hands over at most, and the longest payload.
ReadChunk == 4
MaxPayload == 3

\* HashingReader::read until the end of the stream: every chunk the inner
\* reader returns is fed to the hasher before it is handed on.  The hasher
\* is the bytes it was fed.
RECURSIVE HashingRead(_, _, _)
HashingRead(stream, pos, hasher) ==
    IF pos > Len(stream) THEN hasher
    ELSE LET size == IF Len(stream) - pos + 1 < ReadChunk
                     THEN Len(stream) - pos + 1 ELSE ReadChunk
         IN HashingRead(stream, pos + size,
                        hasher \o SubSeq(stream, pos, pos + size - 1))

\* HashingReader::finalize
finalize(hasher) == Sha1(hasher)

copy_to_sink_skip(stream) == <<>>

\* io::copy(&mut bytes, &mut sink()): reads the HashingReader to its end
copy_to_sink(stream) == HashingRead(stream, 1, <<>>)

\* io::copy(&mut encoder, &mut BufWriter::new(&file)): the encoder reads the
\* HashingReader to its end; the file holds the stream, compressed.
copy_encoded(stream) == [hasher |-> HashingRead(stream, 1, <<>>), file |-> stream]

\* Repository::write_object.  io_ok: the temporary file, the directory
\* objects/<aa> and the rename all succeed.  Returns the result and the
\* loose objects after the call.
write_object(objects, obj, write, io_ok) ==
    LET \* obj.name() is unimplemented!() for the two delta variants
        bytes == KindName(obj.kind) \o <<SP>> \o Decimal(Len(obj.bytes))
                 \o <<NUL>> \o obj.bytes
    IN  IF obj.kind \notin KindNames
        THEN [tag |-> "panic", id |-> <<0, 0>>, loose |-> objects]
        ELSE IF write
        THEN IF ~io_ok THEN [tag |-> "err", id |-> <<0, 0>>, loose |-> objects]
             ELSE LET copied == copy_encoded(bytes)
                      sha1   == finalize(copied.hasher)
                  IN [tag |-> "ok", id |-> sha1,
                      loose |-> [objects EXCEPT ![sha1] = File(copied.file)]]
        ELSE [tag |-> "ok", id |-> finalize(copy_to_sink(bytes)), loose |-> objects]

\* The objects handed to write_object: a kind and its serialized bytes.
Payloads == UNION { [1..n -> 0..1] : n \in 0..MaxPayload }
Objects == [kind : KindNames \cup {"offset-delta", "ref-delta"}, bytes : Payloads]

InitWrite ==
    /\ overflow_checks = FALSE
    /\ StoreIdle /\ KvlmIdle /\ LogIdle /\ ToolsIdle("none")

\* A call of write_object on a repository that holds no loose object yet.
WriteObject(obj, write, io_ok) ==
    /\ loose = NoLoose
    /\ LET res == write_object(loose, obj, write, io_ok) IN
       /\ loose' = res.loose
       /\ store_last' = [op |-> "write", obj |-> obj, write |-> write,
                         res |-> [tag |-> res.tag, id |-> res.id]]
    /\ UNCHANGED <<overflow_checks, pack_dir, index_files, packs, global_index,
                   pack_cache, halted>>
    /\ UNCHANGED <<kvlmVars, logVars, toolVars>>

WriteNext == \E obj \in Objects : \E write, io_ok \in BOOLEAN : WriteObject(obj, write, io_ok)

SpecWrite == InitWrite /\ [][WriteNext]_vars

\* Repositories to write a blob into and read it back from: objects/pack
\* missing, or present with one pack whose index lists one id; no loose
\* object yet.
InitWriteRead ==
    /\ overflow_checks = FALSE
    /\ pack_dir \in BOOLEAN
    /\ \/ /\ ~pack_dir
          /\ index_files = <<>>
          /\ packs = [p \in PackIds |-> NoFile]
       \/ /\ pack_dir
          /\ packs = [p \in PackIds |->
                        [tag |-> "pack",
                         frames |-> [o \in 1..MaxOffset |-> FullFrame("blob", <<0>>)]]]
          /\ \E id \in Bytes2Ids : index_files = <<IndexOf(1, {id}, "ok")>>
    /\ loose = NoLoose
    /\ global_index = None
    /\ pack_cache = {}
    /\ store_last = [op |-> "none"]
    /\ halted = FALSE
    /\ KvlmIdle /\ LogIdle /\ ToolsIdle("none")

\* The blobs written: the short payloads, and one whose framed form fills
\* the 64 bytes that a read asks for first.
BlobPayloads == Payloads \cup { [k \in 1..PayloadLen |-> 0] }

WriteReadNext ==
    \/ \E b \in BlobPayloads : WriteObject([kind |-> "blob", bytes |-> b], TRUE, TRUE)
    \/ \E sha1 \in Bytes2Ids : ReadObjectData(sha1)

SpecWriteRead == InitWriteRead /\ [][WriteReadNext]_vars

-----------------------------------------------------------------------------
(* DeltaObject::from and DeltaObject::rebuild on their own.                *)

\* The longest base and the most instructions of a delta payload.
MaxBase == 2
MaxInstr == 2

\* Encoded instructions: inserts, copies with and without an offset byte,
\* a copy with no size byte (65 536 bytes), the opcode 0, a cut-off insert.
InstrMenu == { <<1, 0>>, <<2, 0, 1>>, <<144, 1>>, <<144, 2>>, <<145, 1, 1>>,
               <<145, 1, 2>>, <<128>>, <<0>>, <<2, 0>> }

\* Delta payloads: the two sizes of the header, then the instructions.
DeltaPayloads ==
    { <<b, e>> \o Flatten(ins) :
        b \in 0..MaxBase, e \in 0..(MaxBase + 1),
        ins \in UNION { [1..n -> InstrMenu] : n \in 0..MaxInstr } }

Bases == UNION { [1..n -> 0..1] : n \in 0..MaxBase }

InitDelta ==
    /\ overflow_checks = FALSE
    /\ StoreIdle /\ KvlmIdle /\ LogIdle /\ ToolsIdle("delta")
    /\ delta_in \in [delta_data : DeltaPayloads, reference_data : Bases]
    /\ delta_out = [op |-> "none"]

\* DeltaObject::from(delta_data)
DeltaFrom ==
    /\ delta_out.op = "none"
    /\ delta_out' = [op |-> "from", res |-> parse_delta_data(delta_in.delta_data)]
    /\ UNCHANGED <<delta_in, storeVars, kvlmVars, logVars, idxVars, refVars,
                   initVars, treeVars>>

\* delta.rebuild(reference_data) on the object that from returned
DeltaRebuild ==
    /\ delta_out.op = "from"
    /\ delta_out.res.tag = "ok"
    /\ delta_out' = [op |-> "rebuild", delta |-> delta_out.res,
                     res |-> rebuild(delta_out.res, delta_in.reference_data)]
    /\ UNCHANGED <<delta_in, storeVars, kvlmVars, logVars, idxVars, refVars,
                   initVars, treeVars>>

DeltaNext == DeltaFrom \/ DeltaRebuild

SpecDelta == InitDelta /\ [][DeltaNext]_vars

-----------------------------------------------------------------------------
(* Tree objects (gitobject/tree.rs).  Identifiers are IdLen bytes long.    *)

\* TreeLeaf::parse_one: the leaf at the head of data and the bytes it took.
parse_one(data) ==
    LET x == Position(data, SP) IN
    IF x = -1 THEN Err
    ELSE IF ~(x = 5 \/ x = 6) THEN Err
    ELSE IF ~IsUtf8(SubSeq(data, 1, x)) THEN Err
    ELSE LET read == SubSeq(data, 1, x)
             mode == IF Len(read) = 5 THEN <<48>> \o read ELSE read
             y    == PositionFrom(data, NUL, x + 1)
         IN IF y = -1 THEN Err
            ELSE IF ~IsUtf8(SubSeq(data, x + 2, y)) THEN Err
            ELSE IF ~(Len(data) >= y + IdLen + 1) THEN Err
            ELSE [tag |-> "ok", len |-> y + IdLen + 1,
                  leaf |-> [mode |-> mode, path |-> SubSeq(data, x + 2, y),
                            sha1 |-> SubSeq(data, y + 2, y + IdLen + 1)]]

\* The while loop of TreeObject::new
RECURSIVE TreeLoop(_, _)
TreeLoop(rem, leaves) ==
    IF rem = <<>> THEN [tag |-> "ok", leaves |-> leaves]
    ELSE LET one == parse_one(rem) IN
         IF one.tag = "err" THEN Err
         ELSE TreeLoop(SubSeq(rem, one.len + 1, Len(rem)), Append(leaves, one.leaf))

\* TreeObject::new
TreeObject_new(data) == TreeLoop(data, <<>>)

\* TreeLeaf::serialize
TreeLeaf_serialize(leaf) ==
    LET mode == IF Len(leaf.mode) = 6 /\ leaf.mode[1] = 48
                THEN Tail(leaf.mode) ELSE leaf.mode
    IN mode \o <<SP>> \o leaf.path \o <<NUL>> \o leaf.sha1

\* TreeObject::serialize
TreeObject_serialize(leaves) ==
    Flatten([k \in 1..Len(leaves) |-> TreeLeaf_serialize(leaves[k])])

\* The most leaves of a tree payload.
MaxLeaves == 2

\* Modes 40000, 100644, 040000 and 4000; paths a, "b c" and the byte 0xff;
\* identifiers, one of them holding the space and the NUL byte.
ModeMenu == { <<52, 48, 48, 48, 48>>, <<49, 48, 48, 54, 52, 52>>,
              <<48, 52, 48, 48, 48, 48>>, <<52, 48, 48, 48>> }
PathMenu == { <<97>>, <<98, 32, 99>>, <<255>> }
IdMenu == { <<1, 2>>, <<32, 0>> }

LeafBytes(mode, path, sha1) == mode \o <<SP>> \o path \o <<NUL>> \o sha1

LeafMenu == { LeafBytes(m, p, i) : m \in ModeMenu, p \in PathMenu, i \in IdMenu }

\* Tree payloads: up to MaxLeaves leaves, whole or with the last byte missing.
TreePayloads ==
    { SubSeq(Flatten(ls), 1, Len(Flatten(ls)) - cut) :
        ls \in UNION { [1..n -> LeafMenu] : n \in 0..MaxLeaves },
        cut \in 0..1 }

InitTree ==
    /\ overflow_checks = FALSE
    /\ StoreIdle /\ KvlmIdle /\ LogIdle /\ ToolsIdle("tree")
    /\ tree_raw \in TreePayloads
    /\ tree_out = [op |-> "none"]

\* TreeObject::new(&data)
TreeNew ==
    /\ tree_out.op = "none"
    /\ tree_out' = [op |-> "new", res |-> TreeObject_new(tree_raw)]
    /\ UNCHANGED <<tree_raw, storeVars, kvlmVars, logVars, idxVars, refVars,
                   initVars, deltaVars>>

\* tree.serialize() on the object that new returned
TreeSerialize ==
    /\ tree_out.op = "new"
    /\ tree_out.res.tag = "ok"
    /\ tree_out' = [op |-> "serialize", leaves |-> tree_out.res.leaves,
                    bytes |-> TreeObject_serialize(tree_out.res.leaves)]
    /\ UNCHANGED <<tree_raw, storeVars, kvlmVars, logVars, idxVars, refVars,
                   initVars, deltaVars>>

TreeNext == TreeNew \/ TreeSerialize

SpecTree == InitTree /\ [][TreeNext]_vars

-----------------------------------------------------------------------------
(* The line LogIterator::next makes of a commit (logiterator.rs,           *)
(* gitobject/commit.rs).                                                   *)

\* CommitObject::get: the values recorded under a key, in order.
CommitObject_get(commit, name) ==
    LET k == KeyIndex(commit.map, name) IN
    IF k = 0 THEN <<>>
    ELSE [j \in 1..Len(commit.map[k].vals) |->
             Slice(commit.raw, commit.map[k].vals[j][1], commit.map[k].vals[j][2])]

AuthorKey == <<97, 117, 116, 104, 111, 114>>

\* CommitObject::author
author(commit) == CommitObject_get(commit, AuthorKey)

\* CommitObject::message: the first value under the empty key, if any.
message(commit) ==
    LET vals == CommitObject_get(commit, <<>>) IN
    IF vals = <<>> THEN None ELSE [tag |-> "some", v |-> vals[1]]

\* encode_hex::<String>(): two lowercase digits per byte
encode_hex(bytes) ==
    LET HexDigit(n) == IF n < 10 THEN 48 + n ELSE 87 + n IN
    [k \in 1..(2 * Len(bytes)) |->
        LET b == bytes[(k + 1) \div 2] IN
        IF k % 2 = 1 THEN HexDigit(b \div 16) ELSE HexDigit(b % 16)]

\* str::replace("\n", " ")
ReplaceNewlines(s) == [k \in 1..Len(s) |-> IF s[k] = NL THEN SP ELSE s[k]]

\* "<<no author>>"
NoAuthor == <<60, 60, 110, 111, 32, 97, 117, 116, 104, 111, 114, 62, 62>>

\* The format! of next(): id, first author, colon, message, with the
\* newlines of the whole string replaced.
format_line(current, commit) ==
    LET a == IF author(commit) = <<>> THEN NoAuthor ELSE author(commit)[1]
        m == IF message(commit) = None THEN <<>> ELSE message(commit).v
    IN  ReplaceNewlines(encode_hex(current) \o <<SP>> \o a \o <<58, SP>> \o m)

\* Commit payloads: no, one or two author records, then nothing or a blank
\* line and a message of up to MaxMessage bytes over a newline and two
\* letters.
MaxMessage == 3
AuthorRecords == { <<>>,
                   AuthorKey \o <<SP, 97, NL>>,
                   AuthorKey \o <<SP, 97, NL>> \o AuthorKey \o <<SP, 98, NL>> }
Messages == UNION { [1..n -> {NL, 97, 98}] : n \in 0..MaxMessage }
CommitPayloads ==
    { a \o t : a \in AuthorRecords, t \in {<<>>} \cup { <<NL>> \o m : m \in Messages } }

InitLine ==
    /\ overflow_checks \in BOOLEAN
    /\ kvlm_raw \in CommitPayloads
    /\ kvlm_out = [op |-> "none"]
    /\ StoreIdle
    /\ LogIdle
    /\ ToolsIdle("none")

\* CommitObject::from(data), as read_commit calls it
CommitFrom ==
    /\ kvlm_out.op = "none"
    /\ kvlm_out' = [op |-> "from", res |-> kvlm_parse(kvlm_raw, overflow_checks)]
    /\ UNCHANGED <<kvlm_raw, storeVars, logVars, toolVars>>

\* The line next() returns for the commit popped under the id current.
NextLine(current) ==
    /\ kvlm_out.op = "from"
    /\ kvlm_out.res.tag = "ok"
    /\ kvlm_out' = [op |-> "line", res |-> kvlm_out.res, current |-> current,
                    line |-> format_line(current, kvlm_out.res)]
    /\ UNCHANGED <<kvlm_raw, storeVars, logVars, toolVars>>

LineNext == CommitFrom \/ \E current \in IdMenu : NextLine(current)

SpecLine == InitLine /\ [][LineNext]_vars

-----------------------------------------------------------------------------
(* Properties of the object store.                                         *)

\* The ids that the index files accepted by init_global_index list.
Listed ==
    UNION { { index_files[k].entries[j][1] : j \in 1..Len(index_files[k].entries) } :
              k \in { n \in 1..Len(index_files) : index_files[n].status = "ok" } }

LastRead == store_last.op = "read"

NoRepeat(trail) ==
    \A a, b \in 1..Len(trail) : a # b => trail[a] # trail[b]

\* C1: whenever read_object_data returns an object -- from a loose file,
\* from a complete pack frame or from a delta chain -- the digest of the
\* returned type and data, framed as "<type> <size>\0<data>", equals the
\* requested id; a mismatch never comes back as success.
C1_SuccessfulReadMatchesId ==
    (LastRead /\ store_last.res.tag = "ok")
        => get_sha1(store_last.res.kind, store_last.res.data) = store_last.id

\* C1 witness: a read of a pack object that went through a delta and its base
\* and came back successfully.
C1_DeltaReadSucceeded ==
    /\ LastRead
    /\ store_last.res.tag = "ok"
    /\ store_last.loc.tag = "pack"
    /\ Len(store_last.res.trail) >= 2

\* C2: when the requested id is in no accepted index and a loose file
\* exists for it, the lookup returns the loose location, whatever the state
\* of objects/pack (missing, empty, or holding only indices of other ids).
C2_LooseFoundWhenNotIndexed ==
    (LastRead /\ store_last.id \notin Listed /\ IsLooseFile(Repo, store_last.id))
        => store_last.loc = ObjectFile

\* C3: once the global index is built, every id that an accepted index
\* lists is found at a pack location, the ids with the largest first byte
\* included.
C3_ListedIsFoundInPack ==
    (LastRead /\ store_last.id \in Listed) => store_last.loc.tag = "pack"

\* C4: a read of an id that is in no index and has no loose file returns an
\* error -- it never panics on an out-of-range index or an underflow --
\* also when the global index is empty.
C4_AbsentIdIsAnError ==
    (LastRead /\ store_last.id \notin Listed /\ ~IsLooseFile(Repo, store_last.id))
        => store_last.res.tag = "err"

\* C5: resolving a delta terminates without exhausting the stack and reads
\* no (pack, offset) pair twice, also when the chain leads back to itself.
C5_DeltaResolutionVisitsOnce ==
    LastRead => /\ store_last.res.tag # "abort"
                /\ NoRepeat(store_last.res.trail)

-----------------------------------------------------------------------------
(* Properties of the key-value list parser and serializer.                 *)

\* The offset of the first newline at or after from that no space follows,
\* or -1.
RecordEnd(b, from) ==
    LET ends == { e \in from..(Len(b) - 1) :
                    At(b, e) = NL /\ (e + 1 >= Len(b) \/ At(b, e + 1) # SP) }
    IN  IF ends = {} THEN -1
        ELSE CHOOSE e \in ends : \A f \in ends : e <= f

\* The bytes of a record's value with the space after each newline removed.
Unfold(bytes) ==
    LET keep == { j \in 1..Len(bytes) : ~(j > 1 /\ bytes[j] = SP /\ bytes[j - 1] = NL) }
        nth(k) == CHOOSE j \in keep : Cardinality({ m \in keep : m < j }) = k - 1
    IN  [k \in 1..Cardinality(keep) |-> bytes[nth(k)]]

\* The records of a body as the format defines them: key, space, value up to
\* the first newline that no space follows; the message after the blank line.
RECURSIVE Records(_, _)
Records(b, p) ==
    IF p >= Len(b) THEN <<>>
    ELSE IF At(b, p) = NL
    THEN << [key |-> <<>>, value |-> Slice(b, p + 1, Len(b)), closed |-> TRUE, message |-> TRUE] >>
    ELSE LET sp == PositionFrom(b, SP, p + 1)
             e  == IF sp < 0 THEN -1 ELSE RecordEnd(b, sp + 1)
         IN IF e < 0
            THEN << [key |-> <<>>, value |-> <<>>, closed |-> FALSE, message |-> FALSE] >>
            ELSE << [key |-> Slice(b, p, sp), value |-> Unfold(Slice(b, sp + 1, e)),
                     closed |-> TRUE, message |-> FALSE] >> \o Records(b, e + 1)

\* The values the format puts under a key, in order of appearance; the
\* message alone under the empty key when there is one.
ValuesInBody(b, key) ==
    LET recs == Records(b, 0)
        mine == SelectSeq(recs, LAMBDA r : r.key = key /\ ~r.message)
    IN  IF key = <<>> /\ \E k \in 1..Len(recs) : recs[k].message
        THEN << recs[Len(recs)].value >>
        ELSE [k \in 1..Len(mine) |-> mine[k].value]

ValuesInMap(m, key) ==
    LET mine == SelectSeq(m, LAMBDA entry : entry.key = key)
    IN  IF mine = <<>> THEN <<>> ELSE mine[1].vals

Parsed == kvlm_out.op = "parse" /\ kvlm_out.res.tag = "ok"

\* A canonical body: records of a non-empty key without newline, one space
\* and a value whose first line is not empty and whose continuation lines
\* start with a space, each closed by a newline; then a blank line and the
\* message.
RECURSIVE CanonicalFrom(_, _)
CanonicalFrom(b, p) ==
    IF p >= Len(b) THEN FALSE
    ELSE IF At(b, p) = NL THEN TRUE
    ELSE LET sp == PositionFrom(b, SP, p + 1)
             e  == IF sp < 0 THEN -1 ELSE RecordEnd(b, sp + 1)
         IN /\ sp > p
            /\ \A j \in p..(sp - 1) : At(b, j) # NL
            /\ e > sp + 1
            /\ At(b, sp + 1) # NL
            /\ CanonicalFrom(b, e + 1)

Canonical(b) == CanonicalFrom(b, 0)

\* C6: parsing the serialization of a parsed body gives the ordered
\* multi-map of the first parse: the same keys in the same order, the same
\* values under each key and the same message, also when a key repeats
\* (stated for the canonical bodies, all of which the parser accepts).
C6_ReparseEqualsParse ==
    (kvlm_out.op = "reparse" /\ Canonical(kvlm_raw))
        => /\ kvlm_out.res2.tag = "ok"
           /\ Materialise(kvlm_out.res2) = Materialise(kvlm_out.res)

\* C7: serializing the parse of a canonical body gives the body back, byte
\* for byte.
C7_SerializeRestoresCanonical ==
    (kvlm_out.op = "serialize" /\ Canonical(kvlm_raw)) => kvlm_out.ser = kvlm_raw

\* C8: in a parsed body whose records all have a key and end in a newline,
\* the value of every record is the bytes between the space after the key
\* and the first newline that no space follows, without the space after each
\* inner newline, and the empty key holds the bytes after the blank line.
C8_ValuesAreUnfoldedRecords ==
    (Parsed /\ \A k \in 1..Len(Records(kvlm_raw, 0)) :
                  /\ Records(kvlm_raw, 0)[k].closed
                  /\ Records(kvlm_raw, 0)[k].message \/ Records(kvlm_raw, 0)[k].key # <<>>)
        => \A key \in { Records(kvlm_raw, 0)[k].key : k \in 1..Len(Records(kvlm_raw, 0)) }
                      \cup { kvlm_out.res.map[k].key : k \in 1..Len(kvlm_out.res.map) } :
              ValuesInMap(Materialise(kvlm_out.res), key) = ValuesInBody(kvlm_raw, key)

-----------------------------------------------------------------------------
(* Properties of the log iterator.                                         *)

Emitted == { log_emitted[k] : k \in 1..Len(log_emitted) }

\* C9: the ids emitted by successive next() calls contain no id twice, also
\* when a commit is reachable through several children and is pushed on the
\* frontier once by each.
C9_NoIdEmittedTwice == NoRepeat(log_emitted)

\* C9 witness: the walk is over and emitted a commit after two different
\* emitted children of it, each of which pushed it.
C9_SharedAncestorEmitted ==
    /\ log_state = "done"
    /\ \E c, a, b \in Emitted \cap CommitIds :
          /\ a # b
          /\ \E k \in 1..Len(log_graph[a].parents) : log_graph[a].parents[k] = c
          /\ \E k \in 1..Len(log_graph[b].parents) : log_graph[b].parents[k] = c

\* No parent carries a later committer time than its child.
ParentsNotNewer ==
    \A c \in CommitIds : \A k \in 1..Len(log_graph[c].parents) :
        LET p == log_graph[c].parents[k] IN
        p \in CommitIds => log_graph[p].secs <= log_graph[c].secs

\* C10: the seconds of the committer records of the commits emitted by
\* successive next() calls never increase (stated for the histories in
\* which no parent is newer than its child).
C10_EmittedSecondsNeverIncrease ==
    ParentsNotNewer =>
        \A j, k \in 1..Len(log_emitted) :
            (j < k /\ log_emitted[j] \in CommitIds /\ log_emitted[k] \in CommitIds)
                => log_graph[log_emitted[j]].secs >= log_graph[log_emitted[k]].secs

-----------------------------------------------------------------------------
(* Properties of the pack index.                                           *)

\* fanout[b] is the number of hashes whose first byte is at most b, the
\* hashes ascend, and the offsets that go through the 64-bit table name a
\* position in it.
WellFormedIndex(index) ==
    /\ \A b \in 0..MaxByte :
          index.fanout[b] = Cardinality({ k \in 1..Len(index.hashes) : index.hashes[k][1] <= b })
    /\ \A k \in 1..(Len(index.hashes) - 1) : HashLess(index.hashes[k], index.hashes[k + 1])
    /\ \A k \in 1..Len(index.offsets) :
          HighBit(index.offsets[k]) => LowBits(index.offsets[k]) < Len(index.offsets64)

\* Where the hash table holds the id: its 0-based positions.
PositionsOf(index, sha1) == { k \in 0..(Len(index.hashes) - 1) : index.hashes[k + 1] = sha1 }

\* C11: on a well-formed version-2 index, PackIndex::find(id) returns the
\* offset recorded for id whenever id is in the hash table -- the first hash
\* of a first-byte bucket included -- and None whenever it is not, and never
\* indexes past the end of the hash table.
C11_FindReturnsRecordedOffset ==
    (idx_last.op = "find" /\ WellFormedIndex(idx.index))
        => IF PositionsOf(idx.index, idx_last.id) # {}
           THEN \E k \in PositionsOf(idx.index, idx_last.id) :
                   /\ idx_last.res.tag = "some"
                   /\ idx_last.res.v = OffsetAt(idx.index, k).v
           ELSE idx_last.res.tag = "none"

\* The trailing digest of the file equals the digest of all bytes before it.
DigestMatches(file) ==
    /\ Len(file) >= IdLen
    /\ Sha1(SubSeq(file, 1, Len(file) - IdLen)) = SubSeq(file, Len(file) - IdLen + 1, Len(file))

\* C12: PackIndex::new returns an error value and no index whenever the
\* stored trailing digest differs from the digest computed over the bytes
\* that precede it, and returns an index only when the two are equal.
C12_DigestMismatchIsAnError ==
    idx_last.op = "new"
        => /\ idx_last.res.tag = "ok" => DigestMatches(idx_file)
           /\ ~DigestMatches(idx_file) => (idx_last.res.tag = "err" /\ idx = None)

-----------------------------------------------------------------------------
(* Properties of reference resolution.                                     *)

\* The string is the hex form of exactly IdLen bytes.
IsHexId(s) == Len(s) = 2 * IdLen /\ \A k \in 1..Len(s) : HexVal(s[k]) >= 0

\* The content without the whitespace at its end.
Trimmed(c) ==
    LET keep == { k \in 0..Len(c) : \A j \in (k + 1)..Len(c) : c[j] \in {SP, 9, NL, 13} }
    IN  SubSeq(c, 1, CHOOSE k \in keep : \A j \in keep : k <= j)

\* C13: find_object(name) is the bytes of name when name is the hex form of
\* an id, even if refs/heads/<name> exists; otherwise, when refs/heads/<name>
\* is a file, its trimmed content is resolved as find_object(tail) if it is
\* "ref: " followed by tail and else must be the hex form of an id (an error
\* if it is not); in every other case the result is an error.
C13_FindObjectResolvesName ==
    ref_last.op = "find" =>
        LET name == ref_last.name
            t    == Trimmed(refs[name].bytes)
        IN  IF IsHexId(name)
            THEN ref_last.res = [tag |-> "ok", id |-> decode(name).bytes]
            ELSE IF name \in RefNames /\ refs[name].tag = "file"
            THEN IF Len(t) >= 5 /\ SubSeq(t, 1, 5) = RefPrefix
                 THEN ref_last.res = find_object(refs, SubSeq(t, 6, Len(t)), 0)
                 ELSE IF IsHexId(t)
                      THEN ref_last.res = [tag |-> "ok", id |-> decode(t).bytes]
                      ELSE ref_last.res.tag = "err"
            ELSE ref_last.res.tag = "err"

\* C13 witness: a name that is no id resolved through a symbolic reference
\* to the id that a second reference file holds behind trailing whitespace.
C13_SymbolicRefResolved ==
    /\ ref_last.op = "find"
    /\ ref_last.res.tag = "ok"
    /\ ref_last.name \in RefNames
    /\ ~IsHexId(ref_last.name)
    /\ refs[ref_last.name].tag = "file"
    /\ \E n \in RefNames \ {ref_last.name} :
          /\ Trimmed(refs[ref_last.name].bytes) = RefPrefix \o n
          /\ refs[n].tag = "file"
          /\ Trimmed(refs[n].bytes) # refs[n].bytes
          /\ IsHexId(Trimmed(refs[n].bytes))

-----------------------------------------------------------------------------
(* Properties of Repository::init.                                         *)

\* .git as a successful init on an empty or missing .git leaves it.
Skeleton ==
    [kind |-> "dir",
     entries |-> [n \in EntryNames |->
        IF n = "hooks" THEN Absent
        ELSE IF \E k \in 1..Len(InitFiles) : InitFiles[k][1] = n
             THEN Text(InitFiles[CHOOSE k \in 1..Len(InitFiles) : InitFiles[k][1] = n][2])
             ELSE Dir]]

\* C14: a call of init on a path whose .git exists and is not empty returns
\* an error and changes nothing on disk; so once an init has succeeded,
\* every later init on the path fails and .git stays as the first one
\* wrote it.
C14_InitRefusesNonEmptyGitdir ==
    [][ /\ (gitdir.kind = "dir" /\ gitdir.entries # NoEntries /\ init_log' # init_log)
            => /\ init_log' = Append(init_log, "err")
               /\ UNCHANGED <<worktree, gitdir>>
        /\ ((\E k \in 1..Len(init_log) : init_log[k] = "ok") /\ init_log' # init_log)
            => /\ init_log' = Append(init_log, "err")
               /\ gitdir = Skeleton /\ gitdir' = Skeleton
               /\ worktree' = "dir" ]_vars

\* C14 witness: an init that succeeded, followed by two that failed on the
\* skeleton it wrote.
C14_SecondInitFailed ==
    /\ init_log = <<"ok", "err", "err">>
    /\ gitdir = Skeleton

-----------------------------------------------------------------------------
(* Properties of write_object.                                             *)

\* C15: write_object(obj, write) returns the same identifier for write =
\* true and write = false, and it is the digest of kind, a space, the
\* decimal length, a NUL and the bytes, over every byte of that stream, for
\* every object and payload length; without write the call cannot fail.
C15_WriteObjectIdIsFramedDigest ==
    store_last.op = "write" =>
        /\ store_last.res.tag = "ok" =>
              /\ store_last.res.id = Sha1(Framed(store_last.obj.kind, store_last.obj.bytes))
              /\ store_last.res.id =
                    write_object(NoLoose, store_last.obj, ~store_last.write, TRUE).id
        /\ (~store_last.write /\ store_last.obj.kind \in KindNames)
              => store_last.res.tag = "ok"

\* C15 witness: an object whose framed stream takes more than two reads was
\* written, and the loose file of the returned id holds that stream.
C15_LongObjectWritten ==
    /\ store_last.op = "write"
    /\ store_last.write
    /\ store_last.res.tag = "ok"
    /\ Len(Framed(store_last.obj.kind, store_last.obj.bytes)) > 2 * ReadChunk
    /\ loose[store_last.res.id] = File(Framed(store_last.obj.kind, store_last.obj.bytes))

-----------------------------------------------------------------------------
(* Properties of the delta engine.                                         *)

\* The bytes an instruction list writes: the sizes of its copies and the
\* lengths of its inserts.
RECURSIVE OutputLen(_)
OutputLen(instructions) ==
    IF instructions = <<>> THEN 0
    ELSE LET instr == Head(instructions) IN
         (IF instr.op = "copy" THEN instr.size ELSE Len(instr.data))
         + OutputLen(Tail(instructions))

\* Every copy lies within the base, so the instructions can all be carried out.
CopiesInBase(instructions, base) ==
    \A k \in 1..Len(instructions) :
        instructions[k].op = "copy"
            => instructions[k].offset + instructions[k].size <= Len(base)

\* C16: rebuild returns Ok(result) only when the length of the result is
\* the result size declared in the delta header, and whenever the output of
\* the instructions has another length than the declared one it returns an
\* error.
C16_RebuildChecksDeclaredSize ==
    delta_out.op = "rebuild" =>
        /\ delta_out.res.tag = "ok"
              => Len(delta_out.res.data) = delta_out.delta.expanded_size
        /\ ( /\ CopiesInBase(delta_out.delta.instructions, delta_in.reference_data)
             /\ OutputLen(delta_out.delta.instructions) # delta_out.delta.expanded_size )
              => delta_out.res.tag = "err"

\* C16 witness: a copy and an insert were carried out on a base that holds
\* the copied range, and their output is shorter than the declared size.
C16_ShortOutputRejected ==
    /\ delta_out.op = "rebuild"
    /\ delta_out.res.tag = "err"
    /\ Len(delta_out.delta.instructions) = 2
    /\ delta_out.delta.instructions[1].op = "copy"
    /\ delta_out.delta.instructions[2].op = "insert"
    /\ CopiesInBase(delta_out.delta.instructions, delta_in.reference_data)
    /\ OutputLen(delta_out.delta.instructions) < delta_out.delta.expanded_size

-----------------------------------------------------------------------------
(* Properties of tree objects.                                             *)

\* Byte-wise order of two paths.
RECURSIVE PathLess(_, _)
PathLess(p, q) ==
    IF q = <<>> THEN FALSE
    ELSE IF p = <<>> THEN TRUE
    ELSE IF Head(p) # Head(q) THEN Head(p) < Head(q)
    ELSE PathLess(Tail(p), Tail(q))

\* The modes the canonical format writes: no leading zero.
CanonicalModes == { m \in ModeMenu : Len(m) \in {5, 6} /\ m[1] # 48 }

\* Canonical tree payloads: leaves of a canonical mode, a path of any bytes
\* but NUL and an identifier, in ascending order of their paths.
CanonicalTrees ==
    { Flatten([k \in 1..Len(ls) |-> LeafBytes(ls[k][1], ls[k][2], ls[k][3])]) :
        ls \in { c \in UNION { [1..n -> CanonicalModes \X PathMenu \X IdMenu] :
                               n \in 0..MaxLeaves } :
                 \A k \in 1..(Len(c) - 1) : PathLess(c[k][2], c[k + 1][2]) } }

\* C17: for every canonical tree payload b, TreeObject::new(b) succeeds and
\* holds every mode as 6 characters, and serialize then yields exactly b.
C17_CanonicalTreeRoundTrips ==
    tree_raw \in CanonicalTrees =>
        /\ tree_out.op = "new" =>
              /\ tree_out.res.tag = "ok"
              /\ \A k \in 1..Len(tree_out.res.leaves) :
                    Len(tree_out.res.leaves[k].mode) = 6
        /\ tree_out.op = "serialize" => tree_out.bytes = tree_raw

-----------------------------------------------------------------------------
(* Termination of the log walk.                                            *)

\* The ids reachable from the ids of S through parent records.
RECURSIVE ReachableFrom(_)
ReachableFrom(S) ==
    LET step == S \cup { p \in 1..Missing :
                           \E c \in S \cap CommitIds :
                              \E k \in 1..Len(log_graph[c].parents) :
                                 log_graph[c].parents[k] = p }
    IN IF step = S THEN S ELSE ReachableFrom(step)

\* C18: on a commit graph in which every commit reachable from the start is
\* readable, repeated next() calls lead to the call that returns None, and
\* by then every reachable commit was emitted, each exactly once.
C18_WalkEmitsReachableThenEnds ==
    (log_state = "open" /\ log_emitted = <<>> /\ Missing \notin ReachableFrom({1}))
        ~> ( /\ log_state = "done"
             /\ Emitted = ReachableFrom({1})
             /\ Len(log_emitted) = Cardinality(ReachableFrom({1})) )

\* C18 witness: the walk over a history of MaxCommits commits, whose first
\* commit has two parents one of which is also a parent of the other, is
\* over and emitted every commit once.
C18_WholeHistoryWalked ==
    /\ log_state = "done"
    /\ Len(log_graph[1].parents) = 2
    /\ \E k \in 1..Len(log_graph[2].parents) : log_graph[2].parents[k] = 3
    /\ Missing \notin ReachableFrom({1})
    /\ Emitted = CommitIds
    /\ Len(log_emitted) = MaxCommits

-----------------------------------------------------------------------------
(* The committer timestamp and the base offset of offset deltas.           *)

\* C19: committer_timestamp is the seconds field of the commit's first
\* committer record -- the number before the zone in "name seconds zone" --
\* and 0 only for a commit without such a record: every frontier item
\* carries the seconds of its commit.
C19_TimestampIsCommitterSeconds ==
    \A k \in 1..Len(log_heap) :
        LET commit == log_graph[log_heap[k][2]] IN
        log_heap[k][1] = IF commit.form = "absent" THEN 0 ELSE commit.secs

\* The frame that the pack of a trail entry holds at the entry's offset.
FrameAt(entry) ==
    IF packs[entry[1]].tag = "pack" /\ entry[2] \in DOMAIN packs[entry[1]].frames
    THEN packs[entry[1]].frames[entry[2]]
    ELSE NoFrame

\* C20: for every offset-delta frame that a read unwinds, a base is read
\* only when 0 < back_offset < this_offset, and then at this_offset -
\* back_offset; with any other back_offset the read is an error and
\* nothing is read after the frame.
C20_BaseOffsetWithinPack ==
    LastRead =>
        \A k \in 1..Len(store_last.res.trail) :
            LET entry == store_last.res.trail[k]
                frame == FrameAt(entry)
            IN frame.kind = "ofs_delta" =>
                  IF 0 < frame.back /\ frame.back < entry[2]
                  THEN k < Len(store_last.res.trail)
                          => store_last.res.trail[k + 1] = <<entry[1], entry[2] - frame.back>>
                  ELSE /\ store_last.res.tag = "err"
                       /\ k = Len(store_last.res.trail)

-----------------------------------------------------------------------------
(* Loose and packed copies of one object.                                  *)

\* C21: when the id read is listed in an accepted pack index and is also a
\* loose file, the location found is the packed one and the object is read
\* from the pack; the loose location is returned only for ids that no
\* accepted index lists.
C21_PackedCopyWins ==
    LastRead =>
        /\ (store_last.id \in Listed /\ IsLooseFile(Repo, store_last.id))
              => /\ store_last.loc.tag = "pack"
                 /\ Len(store_last.res.trail) >= 1
        /\ store_last.loc = ObjectFile => store_last.id \notin Listed

-----------------------------------------------------------------------------
(* The order of the log among commits of equal committer time.             *)

\* A frontier that keeps insertion order among equal timestamps: the item
\* goes behind every item whose timestamp is not smaller.
RECURSIVE StableInsert(_, _)
StableInsert(queue, item) ==
    IF queue = <<>> THEN <<item>>
    ELSE IF Head(queue)[1] >= item[1] THEN <<Head(queue)>> \o StableInsert(Tail(queue), item)
    ELSE <<item>> \o queue

RECURSIVE StablePush(_, _, _)
StablePush(graph, ps, queue) ==
    IF ps = <<>> THEN queue
    ELSE IF graph[Head(ps)].tag = "commit"
         THEN StablePush(graph, Tail(ps),
                         StableInsert(queue, <<committer_timestamp(graph[Head(ps)]), Head(ps)>>))
         ELSE StablePush(graph, Tail(ps), queue)

\* The ids a walk emits when its frontier is such a queue.
RECURSIVE StableWalk(_, _, _, _)
StableWalk(graph, queue, seen, out) ==
    IF queue = <<>> THEN out
    ELSE LET current == Head(queue)[2] IN
         IF current \in seen THEN StableWalk(graph, Tail(queue), seen, out)
         ELSE StableWalk(graph, StablePush(graph, graph[current].parents, Tail(queue)),
                         seen \cup {current}, Append(out, current))

IsPrefix(s, t) == Len(s) <= Len(t) /\ SubSeq(t, 1, Len(s)) = s

\* C22: among frontier items of equal committer timestamp next() emits the
\* one pushed first, so the emitted ids are at every moment the beginning
\* of the walk whose frontier keeps insertion order among equal timestamps.
C22_TiesEmittedInPushOrder ==
    log_state \in {"open", "done"} =>
        IsPrefix(log_emitted,
                 StableWalk(log_graph, <<<<committer_timestamp(log_graph[1]), 1>>>>, {}, <<>>))

-----------------------------------------------------------------------------
(* Index files that fail to load.                                          *)

\* C23: when an index file under objects/pack fails to load, a read does
\* not get a global index built without that pack: the failure reaches the
\* caller as an error and no global index is kept.
C23_FailedIndexIsSurfaced ==
    (LastRead /\ \E k \in 1..Len(index_files) : index_files[k].status = "err")
        => /\ store_last.res.tag = "err"
           /\ global_index = None

-----------------------------------------------------------------------------
(* Record lines without a separating space.                                *)

\* The offsets at which a line of the buffer starts.
LineStarts(b) ==
    { p \in 0..(Len(b) - 1) : p = 0 \/ At(b, p - 1) = NL }

\* The offset of the blank line that starts the message, or the length.
MessageStart(b) ==
    LET blank == { p \in LineStarts(b) : At(b, p) = NL }
    IN IF blank = {} THEN Len(b) ELSE CHOOSE p \in blank : \A q \in blank : p <= q

\* A line before the message that ends in a newline and holds no space.
SpacelessRecordLine(b) ==
    \E p \in LineStarts(b) :
        /\ p < MessageStart(b)
        /\ \E e \in (p + 1)..(Len(b) - 1) :
              /\ At(b, e) = NL
              /\ \A k \in p..(e - 1) : At(b, k) \notin {SP, NL}

\* C24: kvlm_parse returns an error for every buffer with a record line,
\* before the blank line that starts the message, that has no space before
\* its newline; no key of a parsed buffer holds a newline.
C24_SpacelessLineIsAnError ==
    kvlm_out.op = "parse" =>
        /\ SpacelessRecordLine(kvlm_raw) => kvlm_out.res.tag = "err"
        /\ kvlm_out.res.tag = "ok" =>
              \A k \in 1..Len(kvlm_out.res.map) :
                 \A j \in 1..Len(kvlm_out.res.map[k].key) :
                    kvlm_out.res.map[k].key[j] # NL

-----------------------------------------------------------------------------
(* The 64-bit offset table.                                                *)

\* C25: in every index that PackIndex::new returns, each 32-bit offset with
\* the top bit set holds in its low 31 bits a position inside the 64-bit
\* table, so that find and the iterator never index past its end; a file
\* with a position outside the table is rejected.
C25_SpillPositionsInTable ==
    idx.tag = "some" =>
        \A k \in 1..Len(idx.index.offsets) :
            HighBit(idx.index.offsets[k])
                => LowBits(idx.index.offsets[k]) < Len(idx.index.offsets64)

-----------------------------------------------------------------------------
(* The subject of a log line.                                              *)

\* The bytes before the first newline.
FirstLine(s) == SplitLines(s)[1]

\* C26: a line of the log is the hex id, a space, the first author, a colon
\* and a space, and then the first line of the commit message followed by
\* nothing but blanks: no text of a later message line is in it.
C26_SubjectIsFirstMessageLine ==
    kvlm_out.op = "line" =>
        LET commit  == kvlm_out.res
            a       == IF author(commit) = <<>> THEN NoAuthor ELSE author(commit)[1]
            m       == IF message(commit) = None THEN <<>> ELSE message(commit).v
            head    == encode_hex(kvlm_out.current) \o <<SP>> \o a \o <<58, SP>> \o FirstLine(m)
        IN  /\ IsPrefix(head, kvlm_out.line)
            /\ \A k \in (Len(head) + 1)..Len(kvlm_out.line) : kvlm_out.line[k] = SP

-----------------------------------------------------------------------------
(* A blob written and read back.                                           *)

\* The id was written by write_object as the blob b.
WrittenAs(id, b) ==
    /\ loose[id] = File(Framed("blob", b))
    /\ Sha1(Framed("blob", b)) = id

\* C27: reading the id under which a blob b was written, in a repository
\* whose packs do not list the id and where the loose file was located,
\* returns kind blob and the bytes b, however short b is.
C27_WrittenBlobReadsBack ==
    \A b \in BlobPayloads :
        (LastRead /\ WrittenAs(store_last.id, b) /\ store_last.loc = ObjectFile)
            => /\ store_last.res.tag = "ok"
               /\ store_last.res.kind = "blob"
               /\ store_last.res.data = b

-----------------------------------------------------------------------------
(* References that lead back to themselves.                                *)

\* C28: find_object returns for every content of refs/heads: a name whose
\* chain of "ref: " files loops ends in an error, the recursion does not go
\* on until the stack is spent.
C28_LoopingRefsEndInError ==
    ref_last.op = "find" => ref_last.res.tag \in {"ok", "err"}

-----------------------------------------------------------------------------
(* The frontier of the log iterator and its cache.                         *)

\* The ids in the frontier.
Frontier == { log_heap[k][2] : k \in 1..Len(log_heap) }

\* C29: once LogIterator::new has succeeded, every id in the frontier has
\* its commit in the cache, so next() yields no Err item; a parent that
\* cannot be read is not pushed and never shows in the walk, neither as a
\* line nor as an error.
C29_FrontierIsCached ==
    log_state \in {"open", "done"} =>
        /\ Frontier \subseteq log_cache
        /\ Missing \notin Frontier
        /\ \A k \in 1..Len(log_emitted) : log_emitted[k] \in CommitIds

\* C29 witness: the walk is over, it emitted a commit that lists the
\* unreadable parent, and a commit reached through a parent link.
C29_UnreadableParentOmitted ==
    /\ log_state = "done"
    /\ Len(log_emitted) >= 2
    /\ \E c \in Emitted \cap CommitIds :
          \E k \in 1..Len(log_graph[c].parents) : log_graph[c].parents[k] = Missing

-----------------------------------------------------------------------------
(* Deltas that do not fit their base.                                      *)

\* C30: rebuild returns an error, and does not abort, when a copy reaches
\* past the end of the base it is given, or when the length of that base is
\* not the base size the delta declares.
C30_MisfitBaseIsAnError ==
    ( /\ delta_out.op = "rebuild"
      /\ \/ ~CopiesInBase(delta_out.delta.instructions, delta_in.reference_data)
         \/ Len(delta_in.reference_data) # delta_out.delta.base_size )
        => delta_out.res.tag = "err"

====
